---- MODULE Spec2Model ----
(***************************************************************************)
(* Model of the Fabric catalog mirror (lev0o/ded-poc-v2, backend/).        *)
(*                                                                         *)
(* Part I   - the catalog store (backend/catalog) and the refresh and read *)
(*            handlers of backend/routers, one session per request.       *)
(* Part II  - upsert as a pure function (backend/catalog/upsert.py).       *)
(* Part III - the paginated listing and the retrying GET                   *)
(*            (backend/clients/fabric.py).                                 *)
(*                                                                         *)
(* Persistence engine (settings.catalog_db_url, sqlite+aiosqlite):         *)
(* every request owns one AsyncSession; DELETE, INSERT and UPDATE stay in  *)
(* the session's transaction until session.commit(); leaving get_session   *)
(* with an exception closes the session and rolls the transaction back;    *)
(* every SELECT reads the committed store as it is when the statement     *)
(* runs, overlaid with the session's own uncommitted changes.              *)
(***************************************************************************)
EXTENDS Integers, Sequences, FiniteSets, TLC

(***************************************************************************)
(* Bounds and universes                                                    *)
(***************************************************************************)
\* number of requests started in one behaviour
MaxOps == 2

Sessions == {"a", "b"}
WsIds == {"w1", "w2"}
DbIds == {"d1", "d2"}
SchemaNames == {"s1", "s2"}
TableNames == {"t1"}
ColumnNames == {"c1"}
NULL == "null"
HOST == "host"

\* the workspace the remote service lists an item under
RemoteWs(d) == IF d = "d1" THEN "w1" ELSE "w2"

\* a set as a sequence, in a fixed order
RECURSIVE SeqOf(_)
SeqOf(S) == IF S = {} THEN <<>>
            ELSE LET x == CHOOSE y \in S : TRUE IN <<x>> \o SeqOf(S \ {x})

(***************************************************************************)
(* Part I.  The catalog store                                              *)
(***************************************************************************)
Tables == {"Workspace", "Item", "SqlEndpoint", "Schema", "Table", "Column"}

\* primary key columns of each table
PK(t) ==
  CASE t = "Workspace"   -> {"id"}
    [] t = "Item"        -> {"id"}
    [] t = "SqlEndpoint" -> {"database_id"}
    [] t = "Schema"      -> {"workspace_id", "database_id", "schema_name"}
    [] t = "Table"       -> {"workspace_id", "database_id", "schema_name", "table_name"}
    [] t = "Column"      -> {"workspace_id", "database_id", "schema_name", "table_name",
                             "column_name"}

KeyOf(t, r) == [k \in PK(t) |-> r[k]]

EmptyDb == [t \in Tables |-> {}]
EmptyTx == [del |-> [t \in Tables |-> {}], put |-> [t \in Tables |-> {}]]

\* The rows of table t a session sees: the committed rows it has not deleted or
\* rewritten, and its own pending rows.
View(dbv, tx, t) ==
  {r \in dbv[t] : /\ KeyOf(t, r) \notin tx.del[t]
                  /\ \A p \in tx.put[t] : KeyOf(t, p) # KeyOf(t, r)}
  \cup tx.put[t]

\* r lies in the scope: it agrees with the scope on every column the scope names
InScope(r, scope) == \A f \in DOMAIN scope : r[f] = scope[f]

\* session.execute(delete(T).where(scope))
DeleteWhere(dbv, tx, t, scope) ==
  LET gone == {KeyOf(t, r) : r \in {x \in View(dbv, tx, t) : InScope(x, scope)}}
  IN [tx EXCEPT !.del[t] = @ \cup gone,
                !.put[t] = {p \in @ : KeyOf(t, p) \notin gone}]

\* a row of table t as the model class builds it when no column is given:
\* Workspace.version defaults to 0, every other column modelled has no value
Default(t) ==
  CASE t = "Workspace"   -> [id |-> NULL, name |-> NULL, version |-> 0]
    [] t = "Item"        -> [id |-> NULL, workspace_id |-> NULL]
    [] t = "SqlEndpoint" -> [database_id |-> NULL, workspace_id |-> NULL, server |-> NULL]
    [] t = "Schema"      -> [workspace_id |-> NULL, database_id |-> NULL,
                             schema_name |-> NULL]
    [] t = "Table"       -> [workspace_id |-> NULL, database_id |-> NULL,
                             schema_name |-> NULL, table_name |-> NULL]
    [] t = "Column"      -> [workspace_id |-> NULL, database_id |-> NULL,
                             schema_name |-> NULL, table_name |-> NULL,
                             column_name |-> NULL]

\* mutant: the row is replaced, a column the incoming row lacks loses its value
Setattr_replaces(obj, r) == [f \in DOMAIN obj |-> IF f \in DOMAIN r THEN r[f] ELSE NULL]

\* for k, v in r.items(): setattr(obj, k, v)
Setattr(obj, r) == [f \in DOMAIN obj |-> IF f \in DOMAIN r THEN r[f] ELSE obj[f]]

\* one row of an upsert_* loop: session.get by primary key, then setattr or add;
\* the get flushes pending rows first, so it finds a row the same batch added
UpsertRow(dbv, tx, t, r) ==
  LET found == {o \in View(dbv, tx, t) : KeyOf(t, o) = KeyOf(t, r)}
      row   == IF found # {} THEN Setattr(CHOOSE o \in found : TRUE, r)
               ELSE Setattr(Default(t), r)
  IN [tx EXCEPT !.put[t] = {p \in @ : KeyOf(t, p) # KeyOf(t, r)} \cup {row}]

RECURSIVE UpsertRows(_, _, _, _)
UpsertRows(dbv, tx, t, rows) ==
  IF rows = <<>> THEN tx
  ELSE UpsertRows(dbv, UpsertRow(dbv, tx, t, Head(rows)), t, Tail(rows))

upsert_schemas(dbv, tx, rows) == UpsertRows(dbv, tx, "Schema", rows)
upsert_tables(dbv, tx, rows) == UpsertRows(dbv, tx, "Table", rows)
upsert_columns(dbv, tx, rows) == UpsertRows(dbv, tx, "Column", rows)
\* mutant: the table is emptied before the rows are written
upsert_sql_endpoints_replacing(dbv, tx, rows) ==
  UpsertRows(dbv, DeleteWhere(dbv, tx, "SqlEndpoint", <<>>), "SqlEndpoint", rows)

upsert_sql_endpoints(dbv, tx, rows) == UpsertRows(dbv, tx, "SqlEndpoint", rows)
upsert_workspaces(dbv, tx, rows) == UpsertRows(dbv, tx, "Workspace", rows)
upsert_items(dbv, tx, rows) == UpsertRows(dbv, tx, "Item", rows)

\* session.commit(): the session's view becomes the committed store
SessionCommit(dbv, tx) == [t \in Tables |-> View(dbv, tx, t)]

\* mutant: closing the session writes its pending changes
SessionClose_flushes(dbv, tx) == SessionCommit(dbv, tx)

\* get_session left by an exception: the session closes, nothing is committed
SessionClose(dbv, tx) == dbv

VARIABLES
  db,       \* the committed store: table -> set of rows
  sess,     \* per session: the request it runs, its position and transaction
  foreign,  \* per session: another session committed since the request began
  cand,     \* per reading session: the committed contents of its scope since it began
  nops      \* requests started so far

catalogVars == <<db, sess, foreign, cand, nops>>

Idle ==
  [op |-> "none", pc |-> "idle", status |-> 0,
   workspace_id |-> NULL, database_id |-> NULL, schema |-> NULL, table |-> NULL,
   tx |-> EmptyTx, todo |-> <<>>, seen |-> <<>>,
   pre |-> EmptyDb, ins |-> EmptyDb, commits |-> 0, live |-> FALSE]

Free(s) == sess[s].pc \in {"idle", "done", "failed"} /\ nops < MaxOps

\* a request enters its handler with a fresh session
Enter(s, op, w, d, sch, tbl) ==
  [Idle EXCEPT !.op = op, !.pc = "run", !.workspace_id = w, !.database_id = d,
               !.schema = sch, !.table = tbl, !.pre = db]

\* the handler raises: HTTP status, session closed without commit
Raise(ss, code) == [ss EXCEPT !.pc = "failed", !.status = code, !.tx = EmptyTx, !.todo = <<>>]

\* the handler returns 200
Return(ss) == [ss EXCEPT !.pc = "done", !.status = 200, !.tx = EmptyTx, !.todo = <<>>]

\* s committed: every other session has seen a foreign commit
Others(s) == [x \in Sessions |-> IF x = s THEN foreign[x] ELSE TRUE]

\* the Schema, Table and Column rows of database (w, d) in a store
ScopeOf(dbv, w, d) ==
  [t \in {"Schema", "Table", "Column"} |->
     {r \in dbv[t] : r.workspace_id = w /\ r.database_id = d}]

Readers == {"introspect"}

\* session s commits newdb
Publish(s, newdb) ==
  /\ db' = newdb
  /\ foreign' = Others(s)
  /\ cand' = [x \in Sessions |->
               IF x # s /\ sess[x].op \in Readers /\ sess[x].pc = "run"
               THEN cand[x] \cup {ScopeOf(newdb, sess[x].workspace_id, sess[x].database_id)}
               ELSE cand[x]]

\* a step of s that commits nothing
Quiet == UNCHANGED <<db, foreign, cand>>

\* mutant: every endpoint is taken as usable
RequireEndpoint_open(dbv, tx, w, d) == 0

\* _require_endpoint / _require_ep: 0 when the endpoint is usable, else the status
RequireEndpoint(dbv, tx, w, d) ==
  LET eps == {e \in View(dbv, tx, "SqlEndpoint") : e.database_id = d}
  IN IF eps = {} \/ (\E e \in eps : e.workspace_id # w) THEN 404
     ELSE IF \E e \in eps : e.server = NULL THEN 503
     ELSE 0

EndpointRow(d, w, srv) == [database_id |-> d, workspace_id |-> w, server |-> srv]
SchemaRow(w, d, s) == [workspace_id |-> w, database_id |-> d, schema_name |-> s]
TableRow(w, d, s, t) == [workspace_id |-> w, database_id |-> d, schema_name |-> s,
                         table_name |-> t]
ColumnRow(w, d, s, t, c) == [workspace_id |-> w, database_id |-> d, schema_name |-> s,
                             table_name |-> t, column_name |-> c]

\* the rows a handler builds from a fetch, in the order of the fetch
SchemaRows(w, d, names) == [i \in 1..Len(names) |-> SchemaRow(w, d, names[i])]
TableRows(w, d, s, names) == [i \in 1..Len(names) |-> TableRow(w, d, s, names[i])]
ColumnRows(w, d, s, t, names) == [i \in 1..Len(names) |-> ColumnRow(w, d, s, t, names[i])]

Range(f) == {f[i] : i \in DOMAIN f}

\* ghost: the rows this request has upserted into table t
Inserted(ss, t, rows) ==
  [ss EXCEPT !.ins[t] = @ \cup {Setattr(Default(t), r) : r \in Range(rows)}]

(***************************************************************************)
(* routers/dbmeta.py: refresh_schemata                                     *)
(***************************************************************************)
refresh_schemata_wipe(dbv, tx, w, d) ==
  DeleteWhere(dbv, tx, "Schema", [workspace_id |-> w, database_id |-> d])

\* a refresh handler up to its first live fetch: require the endpoint, delete
Begin(s, e0, rc, tx0) ==
  /\ Free(s)
  /\ sess' = [sess EXCEPT ![s] = IF rc # 0 THEN Raise(e0, rc) ELSE [e0 EXCEPT !.tx = tx0]]
  /\ foreign' = [foreign EXCEPT ![s] = FALSE]
  /\ cand' = [cand EXCEPT ![s] = {}]
  /\ nops' = nops + 1
  /\ db' = db

\* upsert done: session.commit() and return
CommitReturn(s, ss) ==
  /\ Publish(s, SessionCommit(db, ss.tx))
  /\ sess' = [sess EXCEPT ![s] = Return([ss EXCEPT !.commits = @ + 1])]
  /\ nops' = nops

\* a live fetch raises: HTTPException(503), the session closes
FetchRaises(s, op) ==
  /\ sess[s].op = op /\ sess[s].pc = "run"
  /\ db' = SessionClose(db, sess[s].tx)
  /\ sess' = [sess EXCEPT ![s] = Raise([@ EXCEPT !.live = TRUE], 503)]
  /\ UNCHANGED <<foreign, cand, nops>>

refresh_schemata_begin(s) ==
  \E w \in WsIds, d \in DbIds :
    Begin(s, Enter(s, "refresh_schemata", w, d, NULL, NULL),
          RequireEndpoint(db, EmptyTx, w, d),
          refresh_schemata_wipe(db, EmptyTx, w, d))

refresh_schemata_fetch(s) ==
  /\ sess[s].op = "refresh_schemata" /\ sess[s].pc = "run"
  /\ \E names \in SUBSET SchemaNames :
       LET ss   == sess[s]
           rows == SchemaRows(ss.workspace_id, ss.database_id, SeqOf(names))
       IN CommitReturn(s, [Inserted(ss, "Schema", rows) EXCEPT
                             !.tx = upsert_schemas(db, ss.tx, rows)])

refresh_schemata_fetch_raises(s) == FetchRaises(s, "refresh_schemata")

(***************************************************************************)
(* routers/dbmeta.py: refresh_tables                                       *)
(***************************************************************************)
refresh_tables_wipe(dbv, tx, w, d, sch) ==
  DeleteWhere(dbv, tx, "Table",
              [workspace_id |-> w, database_id |-> d, schema_name |-> sch])

refresh_tables_begin(s) ==
  \E w \in WsIds, d \in DbIds, sch \in SchemaNames :
    Begin(s, Enter(s, "refresh_tables", w, d, sch, NULL),
          RequireEndpoint(db, EmptyTx, w, d),
          refresh_tables_wipe(db, EmptyTx, w, d, sch))

refresh_tables_fetch(s) ==
  /\ sess[s].op = "refresh_tables" /\ sess[s].pc = "run"
  /\ \E names \in SUBSET TableNames :
       LET ss   == sess[s]
           rows == TableRows(ss.workspace_id, ss.database_id, ss.schema, SeqOf(names))
       IN CommitReturn(s, [Inserted(ss, "Table", rows) EXCEPT
                             !.tx = upsert_tables(db, ss.tx, rows)])

refresh_tables_fetch_raises(s) == FetchRaises(s, "refresh_tables")

(***************************************************************************)
(* routers/dbmeta.py: refresh_columns                                      *)
(***************************************************************************)
refresh_columns_wipe(dbv, tx, w, d, sch, tbl) ==
  DeleteWhere(dbv, tx, "Column",
              [workspace_id |-> w, database_id |-> d, schema_name |-> sch,
               table_name |-> tbl])

refresh_columns_begin(s) ==
  \E w \in WsIds, d \in DbIds, sch \in SchemaNames, tbl \in TableNames :
    Begin(s, Enter(s, "refresh_columns", w, d, sch, tbl),
          RequireEndpoint(db, EmptyTx, w, d),
          refresh_columns_wipe(db, EmptyTx, w, d, sch, tbl))

refresh_columns_fetch(s) ==
  /\ sess[s].op = "refresh_columns" /\ sess[s].pc = "run"
  /\ \E names \in SUBSET ColumnNames :
       LET ss   == sess[s]
           rows == ColumnRows(ss.workspace_id, ss.database_id, ss.schema, ss.table,
                              SeqOf(names))
       IN CommitReturn(s, [Inserted(ss, "Column", rows) EXCEPT
                             !.tx = upsert_columns(db, ss.tx, rows)])

refresh_columns_fetch_raises(s) == FetchRaises(s, "refresh_columns")

(***************************************************************************)
(* routers/introspect.py: refresh_introspect                               *)
(***************************************************************************)
\* "wipe existing for a clean rebuild": Column, Table, then Schema rows of (w, d)
refresh_introspect_wipe(dbv, tx, w, d) ==
  LET scope == [workspace_id |-> w, database_id |-> d]
      tx1   == DeleteWhere(dbv, tx, "Column", scope)
      tx2   == DeleteWhere(dbv, tx1, "Table", scope)
  IN DeleteWhere(dbv, tx2, "Schema", scope)

refresh_introspect_begin(s) ==
  \E w \in WsIds, d \in DbIds :
    Begin(s, [Enter(s, "refresh_introspect", w, d, NULL, NULL) EXCEPT
                !.todo = <<<<"schemata">>>>],
          RequireEndpoint(db, EmptyTx, w, d),
          refresh_introspect_wipe(db, EmptyTx, w, d))

\* after a fetch and its upsert: the next fetch of the scan, or commit and return
ScanOn(s, ss) ==
  IF ss.todo = <<>> THEN CommitReturn(s, ss)
  ELSE /\ sess' = [sess EXCEPT ![s] = ss]
       /\ nops' = nops
       /\ Quiet

refresh_introspect_schemata(s) ==
  /\ sess[s].op = "refresh_introspect" /\ sess[s].pc = "run"
  /\ Head(sess[s].todo)[1] = "schemata"
  /\ \E names \in SUBSET SchemaNames :
       LET ss   == sess[s]
           sq   == SeqOf(names)
           rows == SchemaRows(ss.workspace_id, ss.database_id, sq)
       IN ScanOn(s, [Inserted(ss, "Schema", rows) EXCEPT
                       !.tx = upsert_schemas(db, ss.tx, rows),
                       !.todo = [i \in 1..Len(sq) |-> <<"tables", sq[i]>>]])

refresh_introspect_tables(s) ==
  /\ sess[s].op = "refresh_introspect" /\ sess[s].pc = "run"
  /\ Head(sess[s].todo)[1] = "tables"
  /\ \E names \in SUBSET TableNames :
       LET ss   == sess[s]
           sch  == Head(ss.todo)[2]
           sq   == SeqOf(names)
           rows == TableRows(ss.workspace_id, ss.database_id, sch, sq)
       IN ScanOn(s, [Inserted(ss, "Table", rows) EXCEPT
                       !.tx = upsert_tables(db, ss.tx, rows),
                       !.todo = [i \in 1..Len(sq) |-> <<"columns", sch, sq[i]>>]
                                \o Tail(ss.todo)])

refresh_introspect_columns(s) ==
  /\ sess[s].op = "refresh_introspect" /\ sess[s].pc = "run"
  /\ Head(sess[s].todo)[1] = "columns"
  /\ \E names \in SUBSET ColumnNames :
       LET ss   == sess[s]
           sch  == Head(ss.todo)[2]
           tbl  == Head(ss.todo)[3]
           rows == ColumnRows(ss.workspace_id, ss.database_id, sch, tbl, SeqOf(names))
       IN ScanOn(s, [Inserted(ss, "Column", rows) EXCEPT
                       !.tx = upsert_columns(db, ss.tx, rows),
                       !.todo = Tail(ss.todo)])

refresh_introspect_raises(s) == FetchRaises(s, "refresh_introspect")

(***************************************************************************)
(* routers/introspect.py: introspect (read from the cache)                 *)
(***************************************************************************)
\* the rows of table t of database (w, d) the session's SELECT returns
SelectScope(dbv, tx, t, w, d) ==
  {r \in View(dbv, tx, t) : r.workspace_id = w /\ r.database_id = d}

NoRead == [t \in {"Schema", "Table", "Column"} |-> {}]

introspect_begin(s) ==
  /\ Free(s)
  /\ \E w \in WsIds, d \in DbIds :
       LET e0 == Enter(s, "introspect", w, d, NULL, NULL)
           rc == RequireEndpoint(db, EmptyTx, w, d)
       IN /\ sess' = [sess EXCEPT ![s] =
                        IF rc # 0 THEN Raise(e0, rc)
                        ELSE IF SelectScope(db, EmptyTx, "Schema", w, d) = {}
                        THEN Raise(e0, 404)
                        ELSE [e0 EXCEPT !.todo = <<"Schema", "Table", "Column">>,
                                        !.seen = NoRead]]
          /\ cand' = [cand EXCEPT ![s] = {ScopeOf(db, w, d)}]
  /\ foreign' = [foreign EXCEPT ![s] = FALSE]
  /\ nops' = nops + 1
  /\ db' = db

\* one SELECT of the three; after the last the handler returns the nested map
introspect_select(s) ==
  /\ sess[s].op = "introspect" /\ sess[s].pc = "run"
  /\ LET ss == sess[s]
         t  == Head(ss.todo)
         s1 == [ss EXCEPT !.seen[t] = SelectScope(db, ss.tx, t, ss.workspace_id,
                                                  ss.database_id),
                          !.todo = Tail(ss.todo)]
     IN sess' = [sess EXCEPT ![s] =
                   IF s1.todo = <<>> THEN [s1 EXCEPT !.pc = "done", !.status = 200]
                   ELSE s1]
  /\ nops' = nops
  /\ Quiet

(***************************************************************************)
(* routers/sqldb.py: refresh_sqldb, refresh_sqldb_one                      *)
(***************************************************************************)
\* "Purge old rows for this workspace"
refresh_sqldb_purge(dbv, tx, w) ==
  DeleteWhere(dbv, tx, "SqlEndpoint", [workspace_id |-> w])

\* what resolve_sql_endpoints_for_workspace can return for workspace w: one row
\* for each item of some listing of w, with or without a server
ResolvedRows(w) ==
  UNION {[L -> {HOST, NULL}] : L \in SUBSET {d \in DbIds : RemoteWs(d) = w}}

EndpointRows(w, srv) ==
  LET sq == SeqOf(DOMAIN srv)
  IN [i \in 1..Len(sq) |-> EndpointRow(sq[i], w, srv[sq[i]])]

refresh_sqldb_begin(s) ==
  \E w \in WsIds :
    Begin(s, Enter(s, "refresh_sqldb", w, NULL, NULL, NULL), 0,
          refresh_sqldb_purge(db, EmptyTx, w))

refresh_sqldb_one_begin(s) ==
  \E w \in WsIds, d \in DbIds :
    Begin(s, Enter(s, "refresh_sqldb_one", w, d, NULL, NULL), 0,
          refresh_sqldb_purge(db, EmptyTx, w))

\* resolve, upsert, commit; refresh_sqldb_one then looks its database up again
refresh_sqldb_resolve(s) ==
  /\ sess[s].op \in {"refresh_sqldb", "refresh_sqldb_one"} /\ sess[s].pc = "run"
  /\ \E srv \in ResolvedRows(sess[s].workspace_id) :
       LET ss   == sess[s]
           rows == EndpointRows(ss.workspace_id, srv)
           s1   == [Inserted(ss, "SqlEndpoint", rows) EXCEPT
                      !.tx = upsert_sql_endpoints(db, ss.tx, rows), !.commits = @ + 1]
           newdb == SessionCommit(db, s1.tx)
           lost == /\ ss.op = "refresh_sqldb_one"
                   /\ ~ \E e \in newdb["SqlEndpoint"] :
                          e.database_id = ss.database_id /\ e.workspace_id = ss.workspace_id
       IN /\ Publish(s, newdb)
          /\ sess' = [sess EXCEPT ![s] = IF lost THEN Raise(s1, 404) ELSE Return(s1)]
  /\ nops' = nops

refresh_sqldb_resolve_raises(s) ==
  /\ sess[s].op \in {"refresh_sqldb", "refresh_sqldb_one"} /\ sess[s].pc = "run"
  /\ db' = SessionClose(db, sess[s].tx)
  /\ sess' = [sess EXCEPT ![s] = Raise([@ EXCEPT !.live = TRUE], 500)]
  /\ UNCHANGED <<foreign, cand, nops>>

(***************************************************************************)
(* routers/workspaces.py: _hydrate_all (refresh_workspaces)                *)
(***************************************************************************)
\* map_workspace: every column but version; the display name is the id here
WorkspaceRows(ids) == [i \in 1..Len(ids) |-> [id |-> ids[i], name |-> ids[i]]]
ItemRows(w, ids) == [i \in 1..Len(ids) |-> [id |-> ids[i], workspace_id |-> w]]

\* the items the remote service can list for workspace w
RemoteItems(w) == {d \in DbIds : RemoteWs(d) = w}

\* a request that reads nothing before its first remote call
BeginRemote(s, e0) ==
  /\ Free(s)
  /\ sess' = [sess EXCEPT ![s] = e0]
  /\ foreign' = [foreign EXCEPT ![s] = FALSE]
  /\ cand' = [cand EXCEPT ![s] = {}]
  /\ nops' = nops + 1
  /\ db' = db

\* session.commit() in the middle of a handler, or as its last statement
CommitOn(s, ss) ==
  /\ Publish(s, SessionCommit(db, ss.tx))
  /\ sess' = [sess EXCEPT ![s] =
                IF ss.todo = <<>> THEN Return([ss EXCEPT !.commits = @ + 1])
                ELSE [ss EXCEPT !.commits = @ + 1, !.tx = EmptyTx]]
  /\ nops' = nops

\* a remote call raises: the exception leaves the handler (500), the session closes
RemoteRaises(s, ops) ==
  /\ sess[s].op \in ops /\ sess[s].pc = "run"
  /\ db' = SessionClose(db, sess[s].tx)
  /\ sess' = [sess EXCEPT ![s] = Raise([@ EXCEPT !.live = TRUE], 500)]
  /\ UNCHANGED <<foreign, cand, nops>>

refresh_workspaces_begin(s) ==
  BeginRemote(s, [Enter(s, "refresh_workspaces", NULL, NULL, NULL, NULL) EXCEPT
                    !.todo = <<<<"workspaces">>>>])

\* list_workspaces, upsert_workspaces, commit
hydrate_workspaces(s) ==
  /\ sess[s].op = "refresh_workspaces" /\ sess[s].pc = "run"
  /\ Head(sess[s].todo)[1] = "workspaces"
  /\ \E ws \in SUBSET WsIds :
       LET ss   == sess[s]
           sq   == SeqOf(ws)
           rows == WorkspaceRows(sq)
       IN CommitOn(s, [Inserted(ss, "Workspace", rows) EXCEPT
                         !.tx = upsert_workspaces(db, ss.tx, rows),
                         !.todo = [i \in 1..Len(sq) |-> <<"items", sq[i]>>]])

\* for one workspace of the listing: list_items, upsert_items, commit
hydrate_items(s) ==
  /\ sess[s].op = "refresh_workspaces" /\ sess[s].pc = "run"
  /\ Head(sess[s].todo)[1] = "items"
  /\ \E L \in SUBSET RemoteItems(Head(sess[s].todo)[2]) :
       LET ss   == sess[s]
           rows == ItemRows(Head(ss.todo)[2], SeqOf(L))
       IN CommitOn(s, [Inserted(ss, "Item", rows) EXCEPT
                         !.tx = upsert_items(db, ss.tx, rows),
                         !.todo = Tail(ss.todo)])

hydrate_raises(s) == RemoteRaises(s, {"refresh_workspaces"})

(***************************************************************************)
(* routers/workspaces.py: refresh_workspace, refresh_workspace_all         *)
(***************************************************************************)
refresh_workspace_begin(s) ==
  \E w \in WsIds :
    BeginRemote(s, [Enter(s, "refresh_workspace", w, NULL, NULL, NULL) EXCEPT
                      !.todo = <<"lookup", "items">>])

refresh_workspace_all_begin(s) ==
  \E w \in WsIds :
    BeginRemote(s, [Enter(s, "refresh_workspace_all", w, NULL, NULL, NULL) EXCEPT
                      !.todo = <<"lookup", "items", "resolve">>])

\* the next remote call of the handler; after the last one, commit and return
StepOn(s, ss) ==
  IF ss.todo = <<>> THEN CommitOn(s, ss)
  ELSE /\ sess' = [sess EXCEPT ![s] = ss]
       /\ nops' = nops
       /\ Quiet

\* list_workspaces and the lookup of workspace_id in it
refresh_workspace_lookup(s) ==
  /\ sess[s].op \in {"refresh_workspace", "refresh_workspace_all"} /\ sess[s].pc = "run"
  /\ Head(sess[s].todo) = "lookup"
  /\ \E ws \in SUBSET WsIds :
       LET ss   == sess[s]
           rows == WorkspaceRows(<<ss.workspace_id>>)
       IN IF ss.workspace_id \notin ws
          THEN /\ sess' = [sess EXCEPT ![s] = Raise(ss, 404)]
               /\ db' = SessionClose(db, ss.tx)
               /\ UNCHANGED <<foreign, cand, nops>>
          ELSE StepOn(s, [Inserted(ss, "Workspace", rows) EXCEPT
                            !.tx = upsert_workspaces(db, ss.tx, rows),
                            !.todo = Tail(ss.todo)])

refresh_workspace_items(s) ==
  /\ sess[s].op \in {"refresh_workspace", "refresh_workspace_all"} /\ sess[s].pc = "run"
  /\ Head(sess[s].todo) = "items"
  /\ \E L \in SUBSET RemoteItems(sess[s].workspace_id) :
       LET ss   == sess[s]
           rows == ItemRows(ss.workspace_id, SeqOf(L))
       IN StepOn(s, [Inserted(ss, "Item", rows) EXCEPT
                       !.tx = upsert_items(db, ss.tx, rows),
                       !.todo = Tail(ss.todo)])

refresh_workspace_all_resolve(s) ==
  /\ sess[s].op = "refresh_workspace_all" /\ sess[s].pc = "run"
  /\ Head(sess[s].todo) = "resolve"
  /\ \E srv \in ResolvedRows(sess[s].workspace_id) :
       LET ss   == sess[s]
           rows == EndpointRows(ss.workspace_id, srv)
       IN StepOn(s, [Inserted(ss, "SqlEndpoint", rows) EXCEPT
                       !.tx = upsert_sql_endpoints(db, ss.tx, rows),
                       !.todo = Tail(ss.todo)])

refresh_workspace_raises(s) ==
  RemoteRaises(s, {"refresh_workspace", "refresh_workspace_all"})

(***************************************************************************)
(* Part II.  Upsert as a function of a store and a batch                   *)
(* (catalog/upsert.py, on the Workspace table: id, name, version)          *)
(***************************************************************************)
\* rows in one batch
MaxBatch == 2

UNames == {"n1", "n2"}
UVersions == {0, 1}

\* a Workspace table: at most one row per id
UStores ==
  {st \in SUBSET [id : WsIds, name : UNames, version : UVersions] :
     \A x \in st, y \in st : x.id = y.id => x = y}

\* an incoming row: the key and any of the other columns
URows ==
  [id : WsIds] \cup [id : WsIds, name : UNames] \cup [id : WsIds, version : UVersions]
  \cup [id : WsIds, name : UNames, version : UVersions]

UBatches == UNION {[1..n -> URows] : n \in 0..MaxBatch}

\* upsert_workspaces(session, rows); session.commit()
ApplyBatch(st, rows) ==
  LET dbv == [EmptyDb EXCEPT !["Workspace"] = st]
  IN SessionCommit(dbv, upsert_workspaces(dbv, EmptyTx, rows))["Workspace"]

VARIABLE up   \* the store before, the batch, and the store after one and two runs

UpsertParked == up = [pc |-> "off"]

\* Workspace.name has no default: a row that is inserted carries a name
Insertable(st, b) ==
  \A i \in 1..Len(b) :
    \/ "name" \in DOMAIN b[i]
    \/ \E x \in st : x.id = b[i].id
    \/ \E j \in 1..(i - 1) : b[j].id = b[i].id

UpsertInit ==
  \E st \in UStores, b \in UBatches :
    /\ Insertable(st, b)
    /\ up = [pc |-> "start", store |-> st, batch |-> b, once |-> {}, twice |-> {}]

upsert_once ==
  /\ up.pc = "start"
  /\ up' = [up EXCEPT !.pc = "once", !.once = ApplyBatch(up.store, up.batch)]

upsert_again ==
  /\ up.pc = "once"
  /\ up' = [up EXCEPT !.pc = "twice", !.twice = ApplyBatch(up.once, up.batch)]

(***************************************************************************)
(* Part III.  Listing and the retrying GET (clients/fabric.py)             *)
(***************************************************************************)
\* pages of a remote listing, items on one page
MaxPages == 2
MaxPageLen == 2
\* Settings.fabric_http_retries
fabric_http_retries == 3

RemoteIds == {"x", "y"}
Listings == {"list_workspaces", "list_items", "list_workspaces_live"}

PageSet == UNION {[1..n -> RemoteIds] : n \in 0..MaxPageLen}
PagesSet == UNION {[1..n -> PageSet] : n \in 1..MaxPages}

\* a continuation token: <<i>> is the token page i carries, <<>> is no token
NoToken == <<>>

\* The remote listing endpoint: no token asks for the first page, the token of
\* page i for page i + 1; every page but the last carries its token.
Respond(pages, token) ==
  LET i == IF token = NoToken THEN 1 ELSE token[1] + 1
  IN [value |-> pages[i],
      continuationToken |-> IF i < Len(pages) THEN <<i>> ELSE NoToken]

\* mutant: the page replaces what was accumulated
Extend_overwrites(items, data) == data.value

\* items.extend(data.get("value", []))
Extend(items, data) == items \o data.value

\* ct = data.get("continuationToken"); if not ct: break
LastPage(data) == data.continuationToken = NoToken

\* params["continuationToken"] = ct
CarryToken(params, data) == data.continuationToken

\* does the listing fetch its pages with _get_json_retry
UsesRetry(fn) == fn = "list_workspaces_live"

\* mutant: every exception is retried
RetryAgain_any(kind, n) == n < fabric_http_retries

\* AsyncRetrying(stop_after_attempt(fabric_http_retries),
\*               retry_if_exception_type(RequestError ...), reraise=True):
\* after attempt number n raised kind, is another attempt made
RetryAgain(kind, n) == kind = "transient" /\ n < fabric_http_retries

\* list_workspaces: detail and availability per workspace, in listing order
RECURSIVE Detailed(_, _)
Detailed(items, states) ==
  IF items = <<>> THEN <<>>
  ELSE <<[id |-> Head(items), state |-> Head(states)]>>
       \o Detailed(Tail(items), Tail(states))

VARIABLE http  \* one listing call: the remote pages and the position of the loop

HttpParked == http = [pc |-> "off"]

VARIABLES
  norm,   \* one call of _normalize_from_connstring: its argument and its result
  res,    \* one call of resolve_sql_endpoints_for_workspace
  probe,  \* check_workspace_availability called twice for one workspace
  agent,  \* one call into routers/agent_graph.py: a resolver, a matcher or a tool
  orch    \* one run of a catalog refresh of routers/catalog.py

NormParked == norm = [pc |-> "off"]
ResolveParked == res = [pc |-> "off"]
ProbeParked == probe = [pc |-> "off"]
AgentParked == agent = [pc |-> "off"]
OrchParked == orch = [pc |-> "off"]

\* the parts of the state a step of one part leaves alone
OffCatalog == UNCHANGED <<up, http, norm, res, probe, agent, orch>>
OffUpsert == UNCHANGED <<catalogVars, http, norm, res, probe, agent, orch>>
OffHttp == UNCHANGED <<catalogVars, up, norm, res, probe, agent, orch>>
OffNorm == UNCHANGED <<catalogVars, up, http, res, probe, agent, orch>>
OffResolve == UNCHANGED <<catalogVars, up, http, norm, probe, agent, orch>>
OffProbe == UNCHANGED <<catalogVars, up, http, norm, res, agent, orch>>
OffAgent == UNCHANGED <<catalogVars, up, http, norm, res, probe, orch>>
OffOrch == UNCHANGED <<catalogVars, up, http, norm, res, probe, agent>>

HttpInit ==
  \E fn \in Listings, pages \in PagesSet :
    http = [pc |-> "page", fn |-> fn, pages |-> pages,
            params |-> NoToken,    \* params.get("continuationToken")
            items |-> <<>>,        \* items / results
            sent |-> <<>>,         \* the token of every request answered
            tries |-> <<>>,        \* outcome of every attempt of the current request
            exc |-> [kind |-> NULL, attempt |-> 0],  \* the exception that left the call
            result |-> <<>>]

\* one attempt of the current page request answers 200
page_ok ==
  /\ http.pc = "page"
  /\ LET data == Respond(http.pages, http.params)
         h1   == [http EXCEPT !.items = Extend(@, data),
                              !.sent = Append(@, http.params),
                              !.tries = <<>>]
     IN http' = IF LastPage(data)
                THEN IF h1.fn = "list_workspaces"
                     THEN [h1 EXCEPT !.pc = "detail"]
                     ELSE [h1 EXCEPT !.pc = "returned", !.result = h1.items]
                ELSE [h1 EXCEPT !.params = CarryToken(@, data)]

\* one attempt fails: kind is "transient" (httpx.RequestError: connect error,
\* timeout) or "status" (raise_for_status: httpx.HTTPStatusError)
page_fails(kind) ==
  /\ http.pc = "page"
  /\ LET n  == Len(http.tries) + 1
         h1 == [http EXCEPT !.tries = Append(@, kind)]
     IN http' = IF UsesRetry(http.fn) /\ RetryAgain(kind, n) THEN h1
                ELSE [h1 EXCEPT !.pc = "raised", !.exc = [kind |-> kind, attempt |-> n]]

\* list_workspaces after the last page: every workspace gets its state
list_workspaces_detail ==
  /\ http.pc = "detail"
  /\ \E st \in [1..Len(http.items) -> {"active", "inactive"}] :
       http' = [http EXCEPT !.pc = "returned", !.result = Detailed(http.items, st)]

UpsertNext ==
  \/ upsert_once /\ OffUpsert
  \/ upsert_again /\ OffUpsert

HttpNext ==
  \/ page_ok /\ OffHttp
  \/ page_fails("transient") /\ OffHttp
  \/ page_fails("status") /\ OffHttp
  \/ list_workspaces_detail /\ OffHttp

(***************************************************************************)
(* Part IV.  The connection normalizer (clients/fabric.py)                 *)
(*                                                                         *)
(* A string is a sequence of atoms: a separator character ("=", ";", ",",  *)
(* ":", " ") or a run of other characters ("Data Source", "h", "1433").    *)
(* None is the one-atom sequence <<NULL>>, which no string is.             *)
(***************************************************************************)
None == <<NULL>>

\* Python truth of an Optional[str]: neither None nor ""
Truthy(x) == x # None /\ x # <<>>

\* a in s
Contains(s, a) == \E i \in 1..Len(s) : s[i] = a

\* index of the first occurrence of atom a in s, 0 when there is none
Find(s, a) ==
  IF Contains(s, a) THEN CHOOSE i \in 1..Len(s) : s[i] = a /\ \A j \in 1..(i - 1) : s[j] # a
  ELSE 0

\* s.partition(a)[0] and [2]; s.split(a, 1) gives the same two parts when a in s
Before(s, a) == IF Contains(s, a) THEN SubSeq(s, 1, Find(s, a) - 1) ELSE s
After(s, a) == IF Contains(s, a) THEN SubSeq(s, Find(s, a) + 1, Len(s)) ELSE <<>>

\* s.split(a)
RECURSIVE Split(_, _)
Split(s, a) ==
  IF Contains(s, a) THEN <<Before(s, a)>> \o Split(After(s, a), a) ELSE <<s>>

\* s.strip()
RECURSIVE Strip(_)
Strip(s) ==
  IF s = <<>> THEN s
  ELSE IF Head(s) = " " THEN Strip(Tail(s))
  ELSE IF s[Len(s)] = " " THEN Strip(SubSeq(s, 1, Len(s) - 1))
  ELSE s

\* str.lower() on one atom
LowerAtom(a) ==
  CASE a \in {"Data Source", "DATA SOURCE"} -> "data source"
    [] a \in {"Server", "SERVER"} -> "server"
    [] a = "Initial Catalog" -> "initial catalog"
    [] a \in {"Database", "DATABASE"} -> "database"
    [] a = "DB" -> "db"
    [] a = "Warehouse" -> "warehouse"
    [] a = "SQLEndpoint" -> "sqlendpoint"
    [] a = "Lakehouse" -> "lakehouse"
    [] a = "SQLDatabase" -> "sqldatabase"
    [] a = "Notebook" -> "notebook"
    [] a = "A" -> "a"
    [] a = "B" -> "b"
    [] a = "A'" -> "a'"
    [] a = "SELECT" -> "select"
    [] a = "Suspended" -> "suspended"
    [] OTHER -> a

Lower(s) == [i \in 1..Len(s) |-> LowerAtom(s[i])]

\* int(s): the number a decimal string denotes; -1 stands for ValueError
IntOf(s) ==
  LET t == Strip(s)
  IN IF t = <<"1433">> THEN 1433 ELSE IF t = <<"1500">> THEN 1500 ELSE -1

\* try: port = int(port_str) except ValueError: port = 1433
PortOr1433(s) == IF IntOf(s) = -1 THEN 1433 ELSE IntOf(s)

\* parts[k.strip().lower()] = v.strip() for every kv of cs.split(";") holding "=":
\* parts.get(key), None when no kv has the key, the last kv winning
PartsGet(cs, key) ==
  LET kvs == Split(cs, ";")
      hit == {i \in 1..Len(kvs) :
                Contains(kvs[i], "=") /\ Lower(Strip(Before(kvs[i], "="))) = <<key>>}
  IN IF hit = {} THEN None
     ELSE Strip(After(kvs[CHOOSE i \in hit : \A j \in hit : j <= i], "="))

\* a or b
Or(a, b) == IF Truthy(a) THEN a ELSE b

\* _normalize_from_connstring
NormalizeFromConnstring(cs) ==
  IF ~Truthy(cs) THEN [server |-> None, database |-> None, port |-> 1433]
  ELSE IF ~Contains(cs, "=")
  THEN LET server == Strip(cs)
       IN IF Contains(server, ",")
          THEN [server |-> Before(server, ","), database |-> None,
                port |-> PortOr1433(After(server, ","))]
          ELSE [server |-> server, database |-> None, port |-> 1433]
  ELSE LET server   == Or(PartsGet(cs, "data source"), PartsGet(cs, "server"))
           database == Or(PartsGet(cs, "initial catalog"), PartsGet(cs, "database"))
       IN [server |-> server, database |-> database,
           port |-> IF Truthy(server) /\ Contains(server, ",")
                    THEN PortOr1433(After(server, ",")) ELSE 1433]

\* _fallback_db_name: parsed_db or item_name
FallbackDbName(item_name, parsed_db) == Or(parsed_db, item_name)

\* connection strings handed to the normalizer
ServerKeys == {"Data Source", "DATA SOURCE", "Server", "server"}
Hosts == {<<"h">>, <<"tcp", ":", "h">>}
PortSuffixes == {<<>>, <<",", "1433">>, <<",", "1500">>, <<",", "x">>}
DbParts == {<<>>, <<"Initial Catalog", "=", "DB", ";">>, <<" ", "Database", "=", " ", "DB">>}
HostOnly == {pad \o h \o p : pad \in {<<>>, <<" ">>}, h \in Hosts, p \in PortSuffixes}
KeyValue == {<<k, "=">> \o h \o p \o <<";">> \o d :
               k \in ServerKeys, h \in Hosts, p \in PortSuffixes, d \in DbParts}
ConnStrings == {None, <<>>} \cup HostOnly \cup KeyValue

NormInit == \E cs \in ConnStrings : norm = [pc |-> "start", cs |-> cs]

normalize ==
  /\ norm.pc = "start"
  /\ norm' = [pc |-> "done", cs |-> norm.cs, out |-> NormalizeFromConnstring(norm.cs)]

NormNext == normalize /\ OffNorm

(***************************************************************************)
(* Part V.  The connection resolver (clients/fabric.py)                    *)
(*                                                                         *)
(* A JSON object is a function from its keys; _get_json_2xx's None is the  *)
(* empty object, which the callers do not tell apart (`if js`, `js or {}`).*)
(***************************************************************************)
\* items of one listing
MaxItems == 2

ItemTypes == {"Warehouse", "SQLEndpoint", "Lakehouse", "sqlep", "SQLDatabase", "Notebook"}
Statuses == {200, 401, 403, 404, 500}
CsVals == {None, <<>>, <<"h">>}

\* the listing list_items returned: item number k has id <<"i", k>>
ItemLists ==
  UNION {[1..n -> [type : ItemTypes, displayName : {None, <<"Sales">>}]] :
           n \in 0..MaxItems}

\* response bodies: {}, {"connectionString": v}
CsBodies == {<<>>} \cup {[connectionString |-> v] : v \in CsVals}
\* GET lakehouses/{id}: properties.sqlEndpointProperties.connectionString
LakehouseBodies ==
  {<<>>} \cup {[properties |-> [sqlEndpointProperties |-> b]] : b \in CsBodies}
\* GET sqlDatabases/{id}: properties.connectionString / serverFqdn / databaseName
DetailBodies ==
  {<<>>} \cup {[properties |-> [connectionString |-> v, serverFqdn |-> f]] :
                 v \in {None, <<"h">>}, f \in {None, <<"h">>}}
\* GET items/{id}: connectionString on the item or in a nested object
ItemBodies ==
  CsBodies \cup {[properties |-> b] : b \in CsBodies \ {<<>>}}
           \cup {[connection |-> [connectionString |-> <<"h">>]]}

Answers(bodies) ==
  {[status |-> 200, body |-> b] : b \in bodies}
    \cup {[status |-> st, body |-> <<>>] : st \in Statuses \ {200}}

\* js.get(k) of a string-valued key, and (js.get(k) or {}) of an object-valued one
Get(js, k) == IF k \in DOMAIN js THEN js[k] ELSE None
Sub(js, k) == IF k \in DOMAIN js THEN js[k] ELSE <<>>

\* _get_json_2xx: None on 401, 403 and 404, raise_for_status on any other error
GetJson2xx(a) == IF a.status = 200 THEN a.body ELSE <<>>
Raises2xx(a) == a.status \notin {200, 401, 403, 404}

\* get_sqlendpoint_connection_string: None on 404 only, then raise_for_status
RaisesEndpoint(a) == a.status \notin {200, 404}

NoKind == "none"

\* mutant: the type is compared as it was listed
KindOf_exact(it_type) ==
  CASE it_type = "warehouse" -> "Warehouse"
    [] it_type = "sqlendpoint" -> "SQLEndpoint"
    [] it_type \in {"lakehouse", "sqlep", "lakehousesqlendpoint"} -> "LakehouseSqlEndpoint"
    [] it_type \in {"sqldatabase", "sql database", "sqldatabasepreview"} -> "SqlDatabase"
    [] OTHER -> NoKind

\* it_type = (it.get("type") or "").lower() and the if / elif chain on it
KindOf(it_type) ==
  LET t == LowerAtom(it_type)
  IN CASE t = "warehouse" -> "Warehouse"
       [] t = "sqlendpoint" -> "SQLEndpoint"
       [] t \in {"lakehouse", "sqlep", "lakehousesqlendpoint"} -> "LakehouseSqlEndpoint"
       [] t \in {"sqldatabase", "sql database", "sqldatabasepreview"} -> "SqlDatabase"
       [] OTHER -> NoKind

\* the first sub-call of a kind
FirstStep(kind) ==
  IF kind \in {"Warehouse", "SQLEndpoint"} THEN "connectionString" ELSE "detail"

\* a descriptor as get_sqldb_properties returns it
Descriptor(cs, fqdn, dbname) ==
  [connectionString |-> cs, serverFqdn |-> fqdn, databaseName |-> dbname]
OnlyCs(cs) == Descriptor(cs, None, None)

\* name = it.get("displayName") or it.get("name") or it_id
NameOf(its, k) == Or(its[k].displayName, <<"i", k>>)

\* the row appended for item k
RowOf(its, k, kind, d) ==
  LET cs   == d.connectionString
      name == NameOf(its, k)
      meta == NormalizeFromConnstring(cs)
      viaCs == kind # "SqlDatabase" \/ Truthy(cs)
  IN [database_id |-> <<"i", k>>, kind |-> kind, name |-> name,
      server |-> IF viaCs THEN meta.server ELSE d.serverFqdn,
      database |-> FallbackDbName(name, IF viaCs THEN meta.database ELSE d.databaseName),
      port |-> IF viaCs THEN meta.port ELSE 1433,
      connection_string |-> cs]

ResolveInit ==
  \E its \in ItemLists :
    res = [pc |-> "item", items |-> its, i |-> 1, kind |-> NoKind, step |-> NULL,
           rows |-> <<>>,
           n |-> 0,            \* sub-calls made for the current item
           tried |-> <<>>,     \* for every row, the sub-calls made for its item
           denied |-> FALSE,   \* has a sub-call answered 401 or 403
           exc |-> 0]          \* the status raise_for_status raised on

\* a sub-call was answered
Called(r, a) == [r EXCEPT !.n = @ + 1, !.denied = @ \/ a.status \in {401, 403}]

\* raise_for_status raises out of the resolver
Raised(r, a) == [Called(r, a) EXCEPT !.pc = "raised", !.exc = a.status]

\* rows.append(...) and on to the next item
Emit(r, d) ==
  [r EXCEPT !.pc = "item", !.i = @ + 1, !.n = 0,
            !.rows = Append(@, RowOf(r.items, r.i, r.kind, d)),
            !.tried = Append(@, r.n)]

\* the head of the for loop: return, skip a non-SQL item, or start on an item
resolve_item ==
  /\ res.pc = "item"
  /\ res' = IF res.i > Len(res.items) THEN [res EXCEPT !.pc = "returned"]
            ELSE LET kind == KindOf(res.items[res.i].type)
                 IN IF kind = NoKind THEN [res EXCEPT !.i = @ + 1]
                    ELSE [res EXCEPT !.pc = "call", !.kind = kind, !.n = 0,
                                     !.step = FirstStep(kind)]

\* get_warehouse_connection_string: connectionString, then getConnectionString
warehouse_call ==
  /\ res.pc = "call" /\ res.kind = "Warehouse"
  /\ \E a \in Answers(CsBodies) :
       LET js == GetJson2xx(a)
           r1 == Called(res, a)
       IN res' = IF Raises2xx(a) THEN Raised(res, a)
                 ELSE IF js # <<>> /\ "connectionString" \in DOMAIN js
                 THEN Emit(r1, OnlyCs(js.connectionString))
                 ELSE IF res.step = "connectionString"
                 THEN [r1 EXCEPT !.step = "getConnectionString"]
                 ELSE Emit(r1, OnlyCs(None))

\* get_sqlendpoint_connection_string
sqlendpoint_call ==
  /\ res.pc = "call" /\ res.kind = "SQLEndpoint"
  /\ \E a \in Answers(CsBodies) :
       res' = IF a.status = 404 THEN Emit(Called(res, a), OnlyCs(None))
              ELSE IF RaisesEndpoint(a) THEN Raised(res, a)
              ELSE Emit(Called(res, a), OnlyCs(Get(a.body, "connectionString")))

\* get_lakehouse_sql_connection_string
lakehouse_call ==
  /\ res.pc = "call" /\ res.kind = "LakehouseSqlEndpoint"
  /\ \E a \in Answers(LakehouseBodies) :
       LET js == GetJson2xx(a)
       IN res' = IF Raises2xx(a) THEN Raised(res, a)
                 ELSE Emit(Called(res, a),
                           OnlyCs(Get(Sub(Sub(js, "properties"), "sqlEndpointProperties"),
                                      "connectionString")))

\* get_sqldb_properties 1): the item detail's properties
sqldb_detail ==
  /\ res.pc = "call" /\ res.kind = "SqlDatabase" /\ res.step = "detail"
  /\ \E a \in Answers(DetailBodies) :
       LET props == Sub(GetJson2xx(a), "properties")
           d == Descriptor(Get(props, "connectionString"), Get(props, "serverFqdn"),
                           Get(props, "databaseName"))
           r1 == Called(res, a)
       IN res' = IF Raises2xx(a) THEN Raised(res, a)
                 ELSE IF Truthy(d.connectionString) \/ Truthy(d.serverFqdn)
                         \/ Truthy(d.databaseName)
                 THEN Emit(r1, d)
                 ELSE [r1 EXCEPT !.step = "connectionString"]

\* get_sqldb_properties 2): the connectionString and getConnectionString sub-resources
sqldb_connstring ==
  /\ res.pc = "call" /\ res.kind = "SqlDatabase"
  /\ res.step \in {"connectionString", "getConnectionString"}
  /\ \E a \in Answers(CsBodies) :
       LET js2 == GetJson2xx(a)
           r1 == Called(res, a)
       IN res' = IF Raises2xx(a) THEN Raised(res, a)
                 ELSE IF js2 # <<>> /\ "connectionString" \in DOMAIN js2
                 THEN Emit(r1, OnlyCs(js2.connectionString))
                 ELSE [r1 EXCEPT !.step = IF res.step = "connectionString"
                                          THEN "getConnectionString" ELSE "item"]

\* the first of the nested places of an item that holds a connectionString
NestedIn(it) ==
  LET keys == <<"properties", "sqlEndpointProperties", "connection">>
      hit  == {j \in 1..3 : "connectionString" \in DOMAIN Sub(it, keys[j])}
  IN IF hit = {} THEN <<>> ELSE it[keys[CHOOSE j \in hit : \A x \in hit : j <= x]]

\* get_sqldb_properties 3): the generic item lookup
sqldb_item ==
  /\ res.pc = "call" /\ res.kind = "SqlDatabase" /\ res.step = "item"
  /\ \E a \in Answers(ItemBodies) :
       LET it == GetJson2xx(a)
           r1 == Called(res, a)
       IN res' = IF Raises2xx(a) THEN Raised(res, a)
                 ELSE IF "connectionString" \in DOMAIN it
                 THEN Emit(r1, OnlyCs(it.connectionString))
                 ELSE IF NestedIn(it) # <<>>
                 THEN Emit(r1, OnlyCs(NestedIn(it).connectionString))
                 ELSE Emit(r1, OnlyCs(None))

ResolveNext ==
  \/ resolve_item /\ OffResolve
  \/ warehouse_call /\ OffResolve
  \/ sqlendpoint_call /\ OffResolve
  \/ lakehouse_call /\ OffResolve
  \/ sqldb_detail /\ OffResolve
  \/ sqldb_connstring /\ OffResolve
  \/ sqldb_item /\ OffResolve

(***************************************************************************)
(* Part VI.  The availability prober (clients/fabric.py)                   *)
(*                                                                         *)
(* An error message is the set of the words it contains; a connection      *)
(* string is a sequence of atoms, among them the substrings the prober     *)
(* searches for ("datawarehouse.fabric.microsoft.com", "Server=", ...).    *)
(***************************************************************************)
\* the keyword lists of the except clauses
OutageKeywords == {"capacity", "paused", "inactive", "suspended", "unavailable"}
FabricExecKeywords == OutageKeywords \cup {"timeout", "connection", "login", "authentication"}
InnerExecKeywords == OutageKeywords \cup {"timeout", "connection"}
TraditionalExecKeywords == OutageKeywords \cup {"timeout"}

\* messages of the exceptions the remote calls and the trial query raise
Msgs == {{"capacity"}, {"unavailable"}, {"login"}, {"timeout"}, {"connection"}, {"boom"}}

\* mutant: an unclassified failure is raised again
Classify_reraises(msg, keywords) ==
  IF msg \cap keywords # {} THEN "inactive" ELSE "raised"

\* mutant: an outage is reported only when the probe before saw a failure too
Classify_debounced(msg, keywords) ==
  IF msg \cap keywords # {} /\ probe.run = 2 THEN "inactive" ELSE "active"

\* error_msg = str(e).lower(); 'inactive' if any(keyword in error_msg ...) else 'active'
Classify(msg, keywords) ==
  IF msg \cap keywords # {} THEN "inactive" ELSE "active"

Ok(v) == [kind |-> "ok", value |-> v]
Fails == {[kind |-> "fail", msg |-> m] : m \in Msgs}

\* answers of GET workspaces/{id}/sqlEndpoints: a value list (the endpoint may
\* lack its id), a body without value, or an error
ListingAnswers ==
  {Ok(<<>>), Ok(<<[id |-> "e1"]>>), Ok(<<[name |-> "e1"]>>), [kind |-> "null"]} \cup Fails

\* answers of GET .../connectionString
FabricDw == <<"datawarehouse.fabric.microsoft.com">>
ProbeConnStrings ==
  {FabricDw, <<"onelake.dfs.fabric.microsoft.com">>,
   <<"Server=", "h", ";", "Database=", "DB", ";">>, <<"Server=", "h", ";">>, <<"h">>}
ConnAnswers == {Ok(cs) : cs \in ProbeConnStrings \cup {None}} \cup Fails

\* answers of GET workspaces/{id}/items and of exec_query(..., "SELECT 1")
PlainAnswers == {Ok(<<>>)} \cup Fails

ProbeSteps == {"list", "conn", "items", "relist", "conn_test",
               "exec_fabric", "exec_inner", "exec_traditional"}

ProbeInit ==
  probe = [pc |-> "list", run |-> 1,
           log |-> [st \in ProbeSteps |-> [kind |-> "unasked"]],  \* the answers given
           failed |-> [step |-> NULL, msg |-> {}],                \* the call that raised
           result |-> NULL,
           first |-> NULL]                                        \* what the first probe returned

\* the answers a call can get: on the second probe, the answer it got on the first
Pick(step, answers) == IF probe.run = 1 THEN answers ELSE {probe.log[step]} \cap answers

Answered(step, a) ==
  [probe EXCEPT !.log[step] = a,
                !.failed = IF a.kind = "fail" THEN [step |-> step, msg |-> a.msg] ELSE @]

Goes(step, a, pc) == [Answered(step, a) EXCEPT !.pc = pc]
Returns(step, a, state) == [Answered(step, a) EXCEPT !.pc = "returned", !.result = state]

\* endpoints[0]["id"]: KeyError('id') when the endpoint has no id
HasId(value) == "id" \in DOMAIN value[1]

\* conn_str.split('Server=')[1].split(';')[0] if 'Server=' in conn_str else None
ParseField(cs, key) == IF Contains(cs, key) THEN Before(After(cs, key), ";") ELSE None

\* server and database
Parsable(cs) == Truthy(ParseField(cs, "Server=")) /\ Truthy(ParseField(cs, "Database="))

IsFabric(cs) ==
  Contains(cs, "datawarehouse.fabric.microsoft.com")
    \/ Contains(cs, "onelake.dfs.fabric.microsoft.com")

\* data = await _get_json(c, ".../sqlEndpoints")
probe_list ==
  /\ probe.pc = "list"
  /\ \E a \in Pick("list", ListingAnswers) :
       probe' = IF a.kind = "fail"
                THEN Returns("list", a, Classify(a.msg, OutageKeywords))
                ELSE IF a.kind = "null" \/ a.value = <<>>
                THEN Returns("list", a, "inactive")
                ELSE IF ~HasId(a.value)
                THEN Returns("list", a, Classify({"id"}, OutageKeywords))
                ELSE Goes("list", a, "conn")

\* conn_data = await _get_json(c, ".../connectionString")
probe_conn ==
  /\ probe.pc = "conn"
  /\ \E a \in Pick("conn", ConnAnswers) :
       probe' = IF a.kind = "fail"
                THEN Returns("conn", a, Classify(a.msg, OutageKeywords))
                ELSE IF ~Truthy(a.value) THEN Returns("conn", a, "inactive")
                ELSE IF IsFabric(a.value) THEN Goes("conn", a, "items")
                ELSE IF Parsable(a.value) THEN Goes("conn", a, "exec_traditional")
                ELSE Returns("conn", a, "active")

\* items_data = await _get_json(c, ".../items"); except Exception: return 'inactive'
probe_items ==
  /\ probe.pc = "items"
  /\ \E a \in Pick("items", PlainAnswers) :
       probe' = IF a.kind = "fail" THEN Returns("items", a, "inactive")
                ELSE Goes("items", a, "relist")

\* sql_data = await _get_json(c, ".../sqlEndpoints")
probe_relist ==
  /\ probe.pc = "relist"
  /\ \E a \in Pick("relist", ListingAnswers) :
       probe' = IF a.kind = "fail"
                THEN Returns("relist", a, Classify(a.msg, OutageKeywords))
                ELSE IF a.kind = "null" \/ a.value = <<>>
                THEN Returns("relist", a, "inactive")
                ELSE IF ~HasId(a.value)
                THEN Returns("relist", a, Classify({"id"}, OutageKeywords))
                ELSE Goes("relist", a, "conn_test")

\* conn_test = await _get_json(c, ".../connectionString")
probe_conn_test ==
  /\ probe.pc = "conn_test"
  /\ \E a \in Pick("conn_test", ConnAnswers) :
       probe' = IF a.kind = "fail"
                THEN Returns("conn_test", a, Classify(a.msg, OutageKeywords))
                ELSE IF ~Truthy(a.value) THEN Returns("conn_test", a, "inactive")
                ELSE IF Contains(a.value, "datawarehouse.fabric.microsoft.com")
                THEN Goes("conn_test", a, "exec_fabric")
                ELSE IF Parsable(a.value) THEN Goes("conn_test", a, "exec_inner")
                ELSE Returns("conn_test", a, "active")

\* exec_query(server, "master", 1433, "SELECT 1") on a Fabric warehouse host
probe_exec_fabric ==
  /\ probe.pc = "exec_fabric"
  /\ \E a \in Pick("exec_fabric", PlainAnswers) :
       probe' = Returns("exec_fabric", a,
                        IF a.kind = "fail" THEN Classify(a.msg, FabricExecKeywords)
                        ELSE "active")

\* exec_query on a parsed server and database, inside the Fabric branch
probe_exec_inner ==
  /\ probe.pc = "exec_inner"
  /\ \E a \in Pick("exec_inner", PlainAnswers) :
       probe' = Returns("exec_inner", a,
                        IF a.kind = "fail" THEN Classify(a.msg, InnerExecKeywords)
                        ELSE "active")

\* exec_query on a conventional host
probe_exec_traditional ==
  /\ probe.pc = "exec_traditional"
  /\ \E a \in Pick("exec_traditional", PlainAnswers) :
       probe' = Returns("exec_traditional", a,
                        IF a.kind = "fail" THEN Classify(a.msg, TraditionalExecKeywords)
                        ELSE "active")

\* the same workspace is probed again: the function starts from nothing
probe_again ==
  /\ probe.pc = "returned" /\ probe.run = 1
  /\ probe' = [probe EXCEPT !.pc = "list", !.run = 2, !.first = probe.result,
                            !.result = NULL, !.failed = [step |-> NULL, msg |-> {}]]

ProbeNext ==
  \/ probe_list /\ OffProbe
  \/ probe_conn /\ OffProbe
  \/ probe_items /\ OffProbe
  \/ probe_relist /\ OffProbe
  \/ probe_conn_test /\ OffProbe
  \/ probe_exec_fabric /\ OffProbe
  \/ probe_exec_inner /\ OffProbe
  \/ probe_exec_traditional /\ OffProbe
  \/ probe_again /\ OffProbe

(***************************************************************************)
(* Part VII.  Names and fuzzy matching (routers/agent_graph.py)            *)
(*                                                                         *)
(* A name is a sequence of characters.  "a'" and "A'" are the precomposed  *)
(* letters a-acute and A-acute, "'" is the combining acute accent; " " is  *)
(* the whitespace character and "-", "_", "/" the other separators.        *)
(***************************************************************************)
MaxNameLen == 3

RECURSIVE NamesOver(_, _)
NamesOver(alphabet, n) ==
  IF n = 0 THEN {<<>>}
  ELSE LET shorter == NamesOver(alphabet, n - 1)
       IN shorter \cup {Append(s, c) : s \in shorter, c \in alphabet}

Letters == {"a", "A", "a'", "A'"}
Separators == {" ", "-", "_", "/"}
Accent == "'"

\* unicodedata.normalize("NFKC", s): a letter followed by the combining accent
\* becomes the precomposed letter; nothing else in the alphabet changes
RECURSIVE Nfkc(_)
Nfkc(s) ==
  IF Len(s) < 2 THEN s
  ELSE IF s[1] \in {"a", "A"} /\ s[2] = Accent
       THEN <<IF s[1] = "a" THEN "a'" ELSE "A'">> \o Nfkc(SubSeq(s, 3, Len(s)))
       ELSE <<s[1]>> \o Nfkc(Tail(s))

\* re.sub(r"[\s\-_/]+", " ", s)
RECURSIVE Collapse(_)
Collapse(s) ==
  IF s = <<>> THEN s
  ELSE IF s[1] \in Separators
       THEN IF Len(s) > 1 /\ s[2] \in Separators THEN Collapse(Tail(s))
            ELSE <<" ">> \o Collapse(Tail(s))
       ELSE <<s[1]>> \o Collapse(Tail(s))

\* _norm: (s or "").strip(), NFKC, lower, collapse
Norm(s) == Collapse(Lower(Nfkc(Strip(Or(s, <<>>)))))

\* what two names share when they differ only in case, in diacritic marks and
\* in which separators stand where: base letters and the places of the runs
BaseOf(c) == IF c \in Letters THEN "a" ELSE c
RECURSIVE Skeleton(_)
Skeleton(s) ==
  IF s = <<>> THEN s
  ELSE IF s[1] = Accent THEN Skeleton(Tail(s))
  ELSE IF s[1] \in Separators
       THEN IF Len(s) > 1 /\ s[2] \in Separators THEN Skeleton(Tail(s))
            ELSE <<"-">> \o Skeleton(Tail(s))
       ELSE <<BaseOf(s[1])>> \o Skeleton(Tail(s))

\* the pairs of names _norm is compared on
PairNames == NamesOver(Letters \cup Separators \cup {Accent}, MaxNameLen - 1)

NamesInit ==
  \E x \in PairNames, y \in PairNames :
    agent = [pc |-> "names", x |-> x, y |-> y, nx |-> None, ny |-> None]

\* _norm(x) and _norm(y)
norm_names ==
  /\ agent.pc = "names"
  /\ agent' = [agent EXCEPT !.pc = "normed", !.nx = Norm(agent.x), !.ny = Norm(agent.y)]

NamesNext == norm_names /\ OffAgent

(***************************************************************************)
(* difflib.get_close_matches as _best_match calls it (n = 1, cutoff 0.8)   *)
(***************************************************************************)
\* cutoff = 0.8 as a fraction
CutoffNum == 8
CutoffDen == 10

\* the length of the common run of a from i and b from j
RECURSIVE MatchLen(_, _, _, _, _, _)
MatchLen(a, b, i, j, ahi, bhi) ==
  IF i > ahi \/ j > bhi THEN 0
  ELSE IF a[i] # b[j] THEN 0
  ELSE 1 + MatchLen(a, b, i + 1, j + 1, ahi, bhi)

\* SequenceMatcher.find_longest_match: the longest common block of a[alo..ahi]
\* and b[blo..bhi], the earliest in a and then in b among the longest
FindLongestMatch(a, b, alo, ahi, blo, bhi) ==
  LET starts == {p \in (alo..ahi) \X (blo..bhi) : a[p[1]] = b[p[2]]}
      size(p) == MatchLen(a, b, p[1], p[2], ahi, bhi)
      better(p, q) == \/ size(p) > size(q)
                      \/ size(p) = size(q) /\ p[1] < q[1]
                      \/ size(p) = size(q) /\ p[1] = q[1] /\ p[2] < q[2]
  IN IF starts = {} THEN [i |-> alo, j |-> blo, size |-> 0]
     ELSE LET p == CHOOSE p \in starts : \A q \in starts \ {p} : better(p, q)
          IN [i |-> p[1], j |-> p[2], size |-> size(p)]

\* SequenceMatcher.get_matching_blocks: the characters matched in all
RECURSIVE Matched(_, _, _, _, _, _)
Matched(a, b, alo, ahi, blo, bhi) ==
  LET x == FindLongestMatch(a, b, alo, ahi, blo, bhi)
  IN IF x.size = 0 THEN 0
     ELSE x.size + Matched(a, b, alo, x.i - 1, blo, x.j - 1)
                 + Matched(a, b, x.i + x.size, ahi, x.j + x.size, bhi)

\* SequenceMatcher.ratio() = 2.0 * matches / length, and 1.0 when length is 0
Ratio(a, b) ==
  IF Len(a) + Len(b) = 0 THEN [num |-> 1, den |-> 1]
  ELSE [num |-> 2 * Matched(a, b, 1, Len(a), 1, Len(b)), den |-> Len(a) + Len(b)]

RatioLess(r, q) == r.num * q.den < q.num * r.den

\* s.ratio() >= cutoff
AtLeastCutoff_any(r) == TRUE
AtLeastCutoff(r) == r.num * CutoffDen >= CutoffNum * r.den

\* the order of str: by code point, a proper prefix first
Rank(c) ==
  CASE c = " " -> 32 [] c = "-" -> 45 [] c = "/" -> 47
    [] c = "w1" -> 49 [] c = "w2" -> 50 [] c = "d1" -> 51 [] c = "d2" -> 52
    [] c = "A" -> 65 [] c = "B" -> 66 [] c = "_" -> 95
    [] c = "a" -> 97 [] c = "b" -> 98
    [] c = "A'" -> 193 [] c = "a'" -> 225 [] c = "'" -> 769
RECURSIVE StrLess(_, _)
StrLess(x, y) ==
  IF y = <<>> THEN FALSE
  ELSE IF x = <<>> THEN TRUE
  ELSE IF x[1] # y[1] THEN Rank(x[1]) < Rank(y[1])
  ELSE StrLess(Tail(x), Tail(y))

\* difflib.get_close_matches(word, possibilities, n=1, cutoff): the greatest
\* (ratio, x) among the possibilities that reach the cutoff, as a list
GetCloseMatches(word, possibilities) ==
  LET score(x) == Ratio(x, word)
      result == {possibilities[i] : i \in {i \in DOMAIN possibilities :
                                             AtLeastCutoff(score(possibilities[i]))}}
      less(x, y) == \/ RatioLess(score(x), score(y))
                    \/ ~RatioLess(score(y), score(x)) /\ StrLess(x, y)
  IN IF result = {} THEN <<>>
     ELSE <<CHOOSE x \in result : \A y \in result \ {x} : less(y, x)>>

\* list.index(v)
IndexOf(xs, v) == CHOOSE i \in DOMAIN xs : xs[i] = v /\ \A j \in 1..(i - 1) : xs[j] # v

\* _best_match
BestMatch(name, candidates) ==
  IF ~Truthy(name) \/ candidates = <<>> THEN None
  ELSE LET normed == [i \in DOMAIN candidates |-> Norm(candidates[i])]
           matches == GetCloseMatches(Norm(name), normed)
       IN IF matches = <<>> THEN None
          ELSE candidates[IndexOf(normed, matches[1])]

\* the queries and the candidate lists _best_match is tried on
QueryNames == NamesOver({"a", "b"}, MaxNameLen)
MatchNames == NamesOver({"a", "b", "A"}, MaxNameLen - 1)
CandidateLists ==
  {<<>>} \cup {<<c>> : c \in MatchNames} \cup {<<c, d>> : c \in MatchNames, d \in MatchNames}

MatchInit ==
  \E name \in QueryNames \cup {None}, candidates \in CandidateLists :
    agent = [pc |-> "match", name |-> name, candidates |-> candidates, best |-> None]

best_match ==
  /\ agent.pc = "match"
  /\ agent' = [agent EXCEPT !.pc = "matched", !.best = BestMatch(agent.name, agent.candidates)]

MatchNext == best_match /\ OffAgent

(***************************************************************************)
(* The entity resolver: _resolve_workspace and _resolve_database_in_workspace *)
(*                                                                         *)
(* An id is the one-character string of its GUID: <<"w1">> is the text of  *)
(* workspace id w1.                                                        *)
(***************************************************************************)
IdTexts == {<<i>> : i \in WsIds \cup DbIds}

\* UUID_RE.match(s)
UuidRe(s) == s \in IdTexts

\* "s in id2name" and "x.get('database_id') == database": the exact-id test
KnownId_never(s, id) == FALSE
KnownId(s, id) == s = id

\* the names a remote listing may give, one of them shaped like an id
IndexNames == NamesOver({"a", "b", "A"}, MaxNameLen - 1)
OtherNames == {<<"b">>, <<"w1">>, <<"d1">>}

\* the workspaces list_workspaces() returns
WorkspaceLists ==
  LET first == {<<>>} \cup {<<[id |-> <<"w1">>, displayName |-> n]>> : n \in IndexNames}
      second == {<<>>} \cup {<<[id |-> <<"w2">>, displayName |-> n]>> : n \in OtherNames}
  IN {f \o s : f \in first, s \in second}

\* the rows GET /workspaces/{id}/sqldb returns
SqldbLists ==
  LET first == {<<>>} \cup {<<[database_id |-> <<"d1">>, name |-> n, database |-> <<"b">>]>> :
                              n \in IndexNames}
      second == {<<>>} \cup {<<[database_id |-> <<"d2">>, name |-> n, database |-> <<>>]>> :
                               n \in OtherNames}
  IN {f \o s : f \in first, s \in second}

\* what the caller passes as a name or an id
Texts == QueryNames \cup IdTexts \cup {None, <<" ", "w1">>, <<" ">>}

\* wname of one listed workspace
WName(w) == Strip(Or(Or(Get(w, "name"), Get(w, "displayName")), <<>>))

\* names: wname of every listed workspace that has one, in listing order
WorkspaceNames(ws) ==
  LET namesAt == {i \in DOMAIN ws : Truthy(WName(ws[i]))}
  IN [k \in 1..Cardinality(namesAt) |->
        WName(ws[CHOOSE i \in namesAt : Cardinality({j \in namesAt : j < i}) = k - 1])]

\* the lines of _resolve_workspace after list_workspaces() has answered and
\* names is built: its return value and whether _best_match was called
MatchWorkspace(s, ws, dbv, best) ==
  LET ids == {i \in DOMAIN ws : Truthy(ws[i].id)}
      id2name(wid) == WName(ws[CHOOSE i \in ids : ws[i].id = wid /\ \A j \in ids : ws[j].id = wid => j <= i])
      hit == {i \in ids : KnownId(s, ws[i].id)}
      back == {i \in ids : Norm(id2name(ws[i].id)) = Norm(best)}
      eps == {e \in dbv["SqlEndpoint"] : <<e.database_id>> = s}
  IN IF hit # {} THEN [result |-> <<s, id2name(s)>>, fuzzy |-> FALSE]
     ELSE IF Truthy(best) /\ back # {}
          THEN LET i == CHOOSE i \in back : \A j \in back : i <= j
               IN [result |-> <<ws[i].id, id2name(ws[i].id)>>, fuzzy |-> TRUE]
     ELSE IF UuidRe(s) /\ eps # {}
          THEN LET e == CHOOSE e \in eps : TRUE
                   known == {i \in ids : ws[i].id = <<e.workspace_id>>}
               IN [result |-> <<<<e.workspace_id>>,
                                 IF known = {} THEN <<>> ELSE id2name(<<e.workspace_id>>)>>,
                   fuzzy |-> TRUE]
     ELSE [result |-> None, fuzzy |-> TRUE]

\* best = _best_match(s, names) is evaluated on line 86, after the id test
ResolveWorkspace(s, ws, names, dbv) == MatchWorkspace(s, ws, dbv, BestMatch(s, names))

\* candidates: the name and the database of every row, in listing order
DatabaseNames(items) ==
  LET nm(x) == Strip(x.name)
      dbn(x) == x.database
      cands(x) == (IF Truthy(nm(x)) THEN <<nm(x)>> ELSE <<>>)
                  \o (IF Truthy(dbn(x)) /\ dbn(x) # nm(x) THEN <<dbn(x)>> ELSE <<>>)
  IN IF Len(items) = 0 THEN <<>>
     ELSE IF Len(items) = 1 THEN cands(items[1])
     ELSE cands(items[1]) \o cands(items[2])

\* the lines of _resolve_database_in_workspace after the rows have arrived and
\* candidates is built
MatchDatabaseIn(database, items, best) ==
  LET hit == {i \in DOMAIN items : KnownId(database, items[i].database_id)}
      nm(x) == Strip(x.name)
      dbn(x) == x.database
      back == {i \in DOMAIN items : Norm(best) \in {Norm(nm(items[i])), Norm(dbn(items[i]))}}
  IN IF hit # {}
     THEN LET x == items[CHOOSE i \in hit : \A j \in hit : i <= j]
          IN [result |-> <<database, Or(Or(x.name, x.database), <<>>)>>, fuzzy |-> FALSE]
     ELSE IF ~Truthy(best) \/ back = {} THEN [result |-> None, fuzzy |-> TRUE]
     ELSE LET x == items[CHOOSE i \in back : \A j \in back : i <= j]
          IN [result |-> <<x.database_id, Or(Or(nm(x), dbn(x)), <<>>)>>, fuzzy |-> TRUE]

\* best = _best_match(database, candidates) is evaluated after the id test
ResolveDatabaseIn(database, items, candidates) ==
  MatchDatabaseIn(database, items, BestMatch(database, candidates))

EntityInit ==
  \/ \E text \in Texts, ws \in WorkspaceLists :
       agent = [pc |-> "start", fn |-> "workspace", text |-> text, workspace |-> text,
                ws |-> ws, items |-> <<>>, names |-> <<>>, result |-> None, ws_id |-> None,
                fuzzy |-> {}, remote |-> 0, http |-> 0]
  \/ \E text \in Texts, workspace \in {<<"w1">>, <<"a">>}, items \in SqldbLists :
       agent = [pc |-> "start", fn |-> "database", text |-> text, workspace |-> workspace,
                ws |-> <<[id |-> <<"w1">>, displayName |-> <<"A">>]>>, items |-> items,
                names |-> <<>>,
                result |-> None, ws_id |-> None, fuzzy |-> {}, remote |-> 0, http |-> 0]

\* _resolve_workspace, lines 66-70: an empty text returns None, any other text
\* makes list_workspaces() list and probe the remote workspaces
resolve_workspace_list ==
  /\ agent.pc = "start"
  /\ IF ~Truthy(Strip(Or(agent.workspace, <<>>)))
     THEN agent' = [agent EXCEPT !.pc = "resolved"]
     ELSE agent' = [agent EXCEPT !.pc = "listed", !.remote = @ + 1,
                                 !.names = WorkspaceNames(agent.ws)]

\* list_workspaces() raises (token, listing): the resolver raises
resolve_workspace_raises ==
  /\ agent.pc = "start" /\ Truthy(Strip(Or(agent.workspace, <<>>)))
  /\ agent' = [agent EXCEPT !.pc = "raised", !.remote = @ + 1]

\* _resolve_workspace, lines 71-100
resolve_workspace ==
  /\ agent.pc = "listed" /\ agent.fn = "workspace"
  /\ \E r \in {ResolveWorkspace(Strip(agent.text), agent.ws, agent.names, db)} :
       agent' = [agent EXCEPT !.pc = "resolved", !.result = r.result,
                               !.fuzzy = IF r.fuzzy THEN @ \cup {"workspace"} ELSE @]

\* _resolve_database_in_workspace, lines 107-115: resolve the workspace, then
\* ask the backend for its databases
resolve_database_workspace ==
  /\ agent.pc = "listed" /\ agent.fn = "database"
  /\ \E r \in {ResolveWorkspace(Strip(agent.workspace), agent.ws, agent.names, db)} :
     LET f == IF r.fuzzy THEN agent.fuzzy \cup {"workspace"} ELSE agent.fuzzy
     IN IF r.result = None
        THEN agent' = [agent EXCEPT !.pc = "resolved", !.fuzzy = f]
        ELSE \/ agent' = [agent EXCEPT !.pc = "rows", !.fuzzy = f, !.ws_id = r.result[1],
                                       !.http = @ + 1,
                                       !.names = DatabaseNames(agent.items)]
             \/ agent' = [agent EXCEPT !.pc = "raised", !.fuzzy = f, !.ws_id = r.result[1],
                                       !.http = @ + 1]

\* _resolve_database_in_workspace, lines 117-140
resolve_database ==
  /\ agent.pc = "rows"
  /\ \E r \in {ResolveDatabaseIn(agent.text, agent.items, agent.names)} :
       agent' = [agent EXCEPT !.pc = "resolved", !.result = r.result,
                               !.fuzzy = IF r.fuzzy THEN @ \cup {"database"} ELSE @]

EntityNext ==
  \/ resolve_workspace_list /\ OffAgent
  \/ resolve_workspace_raises /\ OffAgent
  \/ resolve_workspace /\ OffAgent
  \/ resolve_database_workspace /\ OffAgent
  \/ resolve_database /\ OffAgent

(***************************************************************************)
(* The agent's SQL tools: list_tables_tool, list_columns_tool and          *)
(* sql_select_tool.  An identifier is a sequence of characters; a SQL text *)
(* is a sequence of words and of the marks ";" and "--".                   *)
(***************************************************************************)
IdentChars == {"d", "1", "_", " ", ";"}
Idents == NamesOver(IdentChars, MaxNameLen - 1)

\* SAFE_IDENT.match(s): one or more of [A-Za-z0-9_], nothing else
SafeIdentRe(s) == s # <<>> /\ \A i \in DOMAIN s : s[i] \in {"d", "1", "_"}

\* _safe_ident
SafeIdent(s) == LET t == Strip(Or(s, <<>>)) IN IF SafeIdentRe(t) THEN t ELSE None

SqlWords == {"select", "SELECT", "with", "drop", "x", ";", "--"}
SqlTexts == NamesOver(SqlWords, MaxNameLen)

\* s.rstrip(";")
RECURSIVE RStrip(_)
RStrip(s) == IF s # <<>> /\ s[Len(s)] = ";" THEN RStrip(SubSeq(s, 1, Len(s) - 1)) ELSE s

\* sql_select_tool, lines 573-581: "" when the text is let through, else the error
Banned == {"insert", "update", "delete", "merge", "alter", "drop", "truncate", "create",
           "grant", "revoke", "exec"}
SqlShapeError(sql) ==
  LET s == RStrip(Strip(Or(sql, <<>>)))
      low == Lower(s)
      starts(w) == Len(low) >= 2 /\ low[1] = w
  IN IF ~(starts("select") \/ starts("with")) THEN "only_select"
     ELSE IF (\E i \in DOMAIN low : low[i] \in Banned) \/ Contains(s, "--") THEN "mutating"
     ELSE ""

\* no SQL text built yet
NoSql == [schema |-> None, table |-> None, text |-> None]

ToolsInit ==
  \/ \E schema \in Idents :
       agent = [pc |-> "validate", tool |-> "list_tables_tool", schema |-> schema,
                table |-> None, sql |-> None, net |-> 0, exec |-> 0, sent |-> NoSql,
                error |-> ""]
  \/ \E schema \in Idents, table \in Idents :
       agent = [pc |-> "validate", tool |-> "list_columns_tool", schema |-> schema,
                table |-> table, sql |-> None, net |-> 0, exec |-> 0, sent |-> NoSql,
                error |-> ""]
  \/ \E sql \in SqlTexts :
       agent = [pc |-> "workspace", tool |-> "sql_select_tool", schema |-> None,
                table |-> None, sql |-> sql, net |-> 0, exec |-> 0, sent |-> NoSql,
                error |-> ""]

Fail(a, error) == [a EXCEPT !.pc = "done", !.error = error]

\* list_tables_tool 690-692, list_columns_tool 724-727
tool_safe_ident ==
  /\ agent.pc = "validate"
  /\ LET ok == /\ SafeIdent(agent.schema) # None
               /\ agent.tool = "list_columns_tool" => SafeIdent(agent.table) # None
     IN agent' = IF ok THEN [agent EXCEPT !.pc = "database"] ELSE Fail(agent, "invalid")

\* _resolve_database_global: the remote listing and the backend requests,
\* answering with a database, with none, or with an exception
tool_resolve_database_global ==
  /\ agent.pc = "database" /\ agent.tool # "sql_select_tool"
  /\ \E found \in {"pair", "unknown", "raises"} :
       agent' = IF found = "pair" THEN [agent EXCEPT !.pc = "exec", !.net = @ + 1]
                ELSE Fail([agent EXCEPT !.net = @ + 1], found)

\* the f-string and exec_query of list_tables_tool 699-709, list_columns_tool 734-744
tool_exec_listing ==
  /\ agent.pc = "exec" /\ agent.tool # "sql_select_tool"
  /\ LET sql == [NoSql EXCEPT !.schema = SafeIdent(agent.schema),
                               !.table = IF agent.tool = "list_columns_tool"
                                         THEN SafeIdent(agent.table) ELSE None]
     IN \/ agent' = Fail([agent EXCEPT !.sent = sql], "no_endpoint")
        \/ \E error \in {"", "raises"} :
             agent' = Fail([agent EXCEPT !.sent = sql, !.exec = @ + 1], error)

\* sql_select_tool 562-565: _resolve_workspace
select_resolve_workspace ==
  /\ agent.pc = "workspace"
  /\ \E found \in {"ws", "unknown", "raises"} :
       agent' = IF found = "ws" THEN [agent EXCEPT !.pc = "database", !.net = @ + 1]
                ELSE Fail([agent EXCEPT !.net = @ + 1], found)

\* sql_select_tool 568-570: _resolve_database_in_workspace
select_resolve_database ==
  /\ agent.pc = "database" /\ agent.tool = "sql_select_tool"
  /\ \E found \in {"db", "unknown", "raises"} :
       agent' = IF found = "db" THEN [agent EXCEPT !.pc = "shape", !.net = @ + 1]
                ELSE Fail([agent EXCEPT !.net = @ + 1], found)

\* sql_select_tool 573-581
select_shape ==
  /\ agent.pc = "shape"
  /\ agent' = IF SqlShapeError(agent.sql) = "" THEN [agent EXCEPT !.pc = "exec"]
              ELSE Fail(agent, SqlShapeError(agent.sql))

\* sql_select_tool 583-587
select_exec ==
  /\ agent.pc = "exec" /\ agent.tool = "sql_select_tool"
  /\ LET s == RStrip(Strip(Or(agent.sql, <<>>)))
     IN \/ agent' = Fail(agent, "no_endpoint")
        \/ \E error \in {"", "raises"} :
             agent' = Fail([agent EXCEPT !.sent.text = s, !.exec = @ + 1], error)

ToolsNext ==
  \/ tool_safe_ident /\ OffAgent
  \/ tool_resolve_database_global /\ OffAgent
  \/ tool_exec_listing /\ OffAgent
  \/ select_resolve_workspace /\ OffAgent
  \/ select_resolve_database /\ OffAgent
  \/ select_shape /\ OffAgent
  \/ select_exec /\ OffAgent

(***************************************************************************)
(* Part VIII.  The catalog refresh (routers/catalog.py): refresh_catalog,  *)
(* refresh_active_catalog and refresh_workspace_catalog drive the other    *)
(* refresh routes over HTTP.  orch.sqldb and orch.introspect are the       *)
(* requests POSTed so far.                                                 *)
(***************************************************************************)
\* Workspace.state as the store may hold it after /workspaces/refresh
WsStates == {NULL, "active", "inactive", "Suspended", "deleted"}

\* select(Workspace) and select(SqlEndpoint)
WorkspaceTables == {<<>>} \cup {<<[id |-> "w1", state |-> s]>> : s \in WsStates}
                   \cup {<<[id |-> "w1", state |-> s], [id |-> "w2", state |-> t]>> :
                           s \in WsStates, t \in WsStates}
EndpointTables == {<<>>, <<[database_id |-> "d1", workspace_id |-> "w1"]>>,
                   <<[database_id |-> "d1", workspace_id |-> "w1"],
                     [database_id |-> "d2", workspace_id |-> "w2"]>>}

\* the test both loops make: state and state.lower() in ['suspended', 'deleted']
SkipsState(state) == state # NULL /\ state # "" /\ LowerAtom(state) \in {"suspended", "deleted"}

\* scalar_one_or_none() of select(Workspace).where(Workspace.id == w): its state
StateOf(workspaces, w) ==
  LET at == {i \in DOMAIN workspaces : workspaces[i].id = w}
  IN IF at = {} THEN NULL ELSE workspaces[CHOOSE i \in at : TRUE].state

RECURSIVE SelectSeq2(_, _)
SelectSeq2(rows, w) ==
  IF rows = <<>> THEN <<>>
  ELSE (IF Head(rows).workspace_id = w THEN <<Head(rows)>> ELSE <<>>) \o SelectSeq2(Tail(rows), w)

OrchInit ==
  \E fn \in {"refresh_catalog", "refresh_active_catalog", "refresh_workspace_catalog"},
     workspaces \in WorkspaceTables, databases \in EndpointTables :
    orch = [pc |-> "start", fn |-> fn, workspace_id |-> "w1",
            workspaces |-> workspaces, databases |-> databases, i |-> 1,
            sqldb |-> {}, introspect |-> {}, status |-> ""]

\* an exception or an HTTPException inside the handler: HTTPException(500)
OrchFails(o) == [o EXCEPT !.pc = "done", !.status = "500"]

\* POST /workspaces/refresh, POST /workspaces/{id}/refresh
orch_refresh_workspaces ==
  /\ orch.pc = "start"
  /\ \/ orch' = [orch EXCEPT !.pc = IF orch.fn = "refresh_workspace_catalog" THEN "check"
                                    ELSE "sqldb"]
     \/ orch' = OrchFails(orch)

\* the loop over all workspaces, catalog.py 149-157 and 250-258
orch_sqldb_each ==
  /\ orch.pc = "sqldb" /\ orch.i <= Len(orch.workspaces)
  /\ LET ws == orch.workspaces[orch.i]
     IN IF SkipsState(ws.state) THEN orch' = [orch EXCEPT !.i = @ + 1]
        ELSE \/ orch' = [orch EXCEPT !.i = @ + 1, !.sqldb = @ \cup {ws.id}]
             \/ orch' = OrchFails([orch EXCEPT !.sqldb = @ \cup {ws.id}])

orch_sqldb_end ==
  /\ orch.pc = "sqldb" /\ orch.i > Len(orch.workspaces)
  /\ orch' = [orch EXCEPT !.pc = "introspect", !.i = 1]

\* the loop over all endpoints, catalog.py 165-180 and 266-281
orch_introspect_each ==
  /\ orch.pc = "introspect" /\ orch.i <= Len(orch.databases)
  /\ LET d == orch.databases[orch.i]
         skip == /\ orch.fn # "refresh_workspace_catalog"
                 /\ SkipsState(StateOf(orch.workspaces, d.workspace_id))
     IN orch' = [orch EXCEPT !.i = @ + 1,
                             !.introspect = IF skip THEN @
                                            ELSE @ \cup {<<d.workspace_id, d.database_id>>}]

orch_introspect_end ==
  /\ orch.pc = "introspect" /\ orch.i > Len(orch.databases)
  /\ orch' = [orch EXCEPT !.pc = "done", !.status = "success"]

\* refresh_workspace_catalog, 201-217
orch_workspace_check ==
  /\ orch.pc = "check"
  /\ IF SkipsState(StateOf(orch.workspaces, orch.workspace_id))
     THEN orch' = [orch EXCEPT !.pc = "done", !.status = "skipped"]
     ELSE \/ orch' = [orch EXCEPT !.pc = "introspect", !.i = 1,
                                  !.sqldb = @ \cup {orch.workspace_id},
                                  !.databases = SelectSeq2(@, orch.workspace_id)]
          \/ orch' = OrchFails([orch EXCEPT !.sqldb = @ \cup {orch.workspace_id}])

OrchNext ==
  \/ orch_refresh_workspaces /\ OffOrch
  \/ orch_sqldb_each /\ OffOrch
  \/ orch_sqldb_end /\ OffOrch
  \/ orch_introspect_each /\ OffOrch
  \/ orch_introspect_end /\ OffOrch
  \/ orch_workspace_check /\ OffOrch

(***************************************************************************)
(* routers/dbmeta.py: query_sql                                            *)
(***************************************************************************)
\* the statements a caller posts, as words
QueryTexts == {<<"SELECT", "x">>, <<"drop", "x">>, <<>>}

\* the words query_sql refuses anywhere in the lowered text
BLOCKLIST == {"insert", "update", "delete", "merge", "alter", "drop", "truncate", "create",
              "grant", "revoke"}

\* the endpoint is required before the body of the request is looked at
query_sql_begin(s) ==
  \E w \in WsIds, d \in DbIds :
    Begin(s, Enter(s, "query_sql", w, d, NULL, NULL),
          RequireEndpoint(db, EmptyTx, w, d), EmptyTx)

\* the blocklist check, then exec_query: its rows, or 503 when it raises
query_sql_exec(s) ==
  /\ sess[s].op = "query_sql" /\ sess[s].pc = "run"
  /\ \E sql \in QueryTexts, ok \in BOOLEAN :
       LET lower == Lower(Strip(Or(sql, <<>>)))
       IN sess' = [sess EXCEPT ![s] =
                     IF \E i \in DOMAIN lower : lower[i] \in BLOCKLIST THEN Raise(@, 400)
                     ELSE IF ok THEN Return([@ EXCEPT !.live = TRUE])
                     ELSE Raise([@ EXCEPT !.live = TRUE], 503)]
  /\ db' = SessionClose(db, sess[s].tx)
  /\ UNCHANGED <<foreign, cand, nops>>

(***************************************************************************)
(* Two refreshes at once.  catalog/db.py builds the engine from             *)
(* settings.catalog_db_url, "sqlite+aiosqlite:///./catalog.db": the store   *)
(* admits one writing transaction.  A session takes the write lock at its   *)
(* first DELETE and keeps it until commit or close; the DELETE of another   *)
(* session waits for the lock, and raises "database is locked" when the     *)
(* wait outlasts the driver's timeout.                                      *)
(***************************************************************************)
RaceOps == {"refresh_introspect", "refresh_sqldb"}

\* session x is between its first DELETE and its commit or close
Holds(x) == sess[x].op \in RaceOps /\ sess[x].pc = "run"

\* mutant: the store admits any number of writing transactions
LockFree_always(s) == TRUE

LockFree(s) == \A x \in Sessions \ {s} : ~ Holds(x)

\* the handler up to its first DELETE: _require_ep, then the session stands
\* before the DELETE
EnterHandler(s, e0, rc) ==
  /\ Free(s)
  /\ sess' = [sess EXCEPT ![s] = IF rc # 0 THEN Raise(e0, rc) ELSE [e0 EXCEPT !.pc = "wait"]]
  /\ foreign' = [foreign EXCEPT ![s] = FALSE]
  /\ cand' = [cand EXCEPT ![s] = {}]
  /\ nops' = nops + 1
  /\ db' = db

refresh_introspect_enter(s) ==
  \E w \in WsIds, d \in DbIds :
    EnterHandler(s, [Enter(s, "refresh_introspect", w, d, NULL, NULL) EXCEPT
                       !.todo = <<<<"schemata">>>>],
                 RequireEndpoint(db, EmptyTx, w, d))

refresh_sqldb_enter(s) ==
  \E w \in WsIds : EnterHandler(s, Enter(s, "refresh_sqldb", w, NULL, NULL, NULL), 0)

\* the DELETE statements run on the store as it is when the lock is granted
first_delete(s) ==
  /\ sess[s].op \in RaceOps /\ sess[s].pc = "wait"
  /\ LockFree(s)
  /\ LET ss == sess[s]
     IN sess' = [sess EXCEPT ![s] =
                   [ss EXCEPT !.pc = "run",
                              !.tx = IF ss.op = "refresh_sqldb"
                                     THEN refresh_sqldb_purge(db, EmptyTx, ss.workspace_id)
                                     ELSE refresh_introspect_wipe(db, EmptyTx, ss.workspace_id,
                                                                  ss.database_id)]]
  /\ nops' = nops
  /\ Quiet

\* the wait for the lock times out: OperationalError, outside every try block,
\* so the request ends with status 500 and its session closes
database_is_locked(s) ==
  /\ sess[s].op \in RaceOps /\ sess[s].pc = "wait"
  /\ ~ LockFree(s)
  /\ db' = SessionClose(db, sess[s].tx)
  /\ sess' = [sess EXCEPT ![s] = Raise(@, 500)]
  /\ UNCHANGED <<foreign, cand, nops>>

RaceNext ==
  \E s \in Sessions :
    \/ refresh_introspect_enter(s) /\ OffCatalog
    \/ refresh_sqldb_enter(s) /\ OffCatalog
    \/ first_delete(s) /\ OffCatalog
    \/ database_is_locked(s) /\ OffCatalog
    \/ refresh_introspect_schemata(s) /\ OffCatalog
    \/ refresh_introspect_tables(s) /\ OffCatalog
    \/ refresh_introspect_columns(s) /\ OffCatalog
    \/ refresh_introspect_raises(s) /\ OffCatalog
    \/ refresh_sqldb_resolve(s) /\ OffCatalog
    \/ refresh_sqldb_resolve_raises(s) /\ OffCatalog

(***************************************************************************)
(* Initial store: workspace w1 crawled, its database d1 fully introspected; *)
(* workspace w2 and its database d2 are not in the cache yet               *)
(***************************************************************************)
InitDb ==
  [t \in Tables |->
     CASE t = "Workspace"   -> {[id |-> "w1", name |-> "w1", version |-> 0]}
       [] t = "Item"        -> {[id |-> "d1", workspace_id |-> "w1"]}
       [] t = "SqlEndpoint" -> {EndpointRow("d1", "w1", HOST)}
       [] t = "Schema"      -> {SchemaRow("w1", "d1", "s1")}
       [] t = "Table"       -> {TableRow("w1", "d1", "s1", "t1")}
       [] t = "Column"      -> {ColumnRow("w1", "d1", "s1", "t1", "c1")}]

CatalogInit ==
  /\ db = InitDb
  /\ sess = [s \in Sessions |-> Idle]
  /\ foreign = [s \in Sessions |-> FALSE]
  /\ cand = [s \in Sessions |-> {}]
  /\ nops = 0

\* both databases known to the store, d1 introspected
RaceDb == [InitDb EXCEPT !["SqlEndpoint"] = @ \cup {EndpointRow("d2", "w2", HOST)}]

RaceInit ==
  /\ db = RaceDb
  /\ sess = [s \in Sessions |-> Idle]
  /\ foreign = [s \in Sessions |-> FALSE]
  /\ cand = [s \in Sessions |-> {}]
  /\ nops = 0

CatalogNext ==
  \E s \in {"a"} :
    \/ refresh_schemata_begin(s) /\ OffCatalog
    \/ refresh_schemata_fetch(s) /\ OffCatalog
    \/ refresh_schemata_fetch_raises(s) /\ OffCatalog
    \/ refresh_tables_begin(s) /\ OffCatalog
    \/ refresh_tables_fetch(s) /\ OffCatalog
    \/ refresh_tables_fetch_raises(s) /\ OffCatalog
    \/ refresh_columns_begin(s) /\ OffCatalog
    \/ refresh_columns_fetch(s) /\ OffCatalog
    \/ refresh_columns_fetch_raises(s) /\ OffCatalog
    \/ refresh_introspect_begin(s) /\ OffCatalog
    \/ refresh_introspect_schemata(s) /\ OffCatalog
    \/ refresh_introspect_tables(s) /\ OffCatalog
    \/ refresh_introspect_columns(s) /\ OffCatalog
    \/ refresh_introspect_raises(s) /\ OffCatalog
    \/ refresh_sqldb_begin(s) /\ OffCatalog
    \/ refresh_sqldb_one_begin(s) /\ OffCatalog
    \/ refresh_sqldb_resolve(s) /\ OffCatalog
    \/ refresh_sqldb_resolve_raises(s) /\ OffCatalog
    \/ query_sql_begin(s) /\ OffCatalog
    \/ query_sql_exec(s) /\ OffCatalog
    \/ introspect_begin("b") /\ OffCatalog
    \/ introspect_select("b") /\ OffCatalog

\* the top-level refreshes (Workspace, Item, SqlEndpoint rows)
TopNext ==
  \E s \in {"a"} :
    \/ refresh_workspaces_begin(s) /\ OffCatalog
    \/ hydrate_workspaces(s) /\ OffCatalog
    \/ hydrate_items(s) /\ OffCatalog
    \/ hydrate_raises(s) /\ OffCatalog
    \/ refresh_workspace_begin(s) /\ OffCatalog
    \/ refresh_workspace_all_begin(s) /\ OffCatalog
    \/ refresh_workspace_lookup(s) /\ OffCatalog
    \/ refresh_workspace_items(s) /\ OffCatalog
    \/ refresh_workspace_all_resolve(s) /\ OffCatalog
    \/ refresh_workspace_raises(s) /\ OffCatalog
    \/ refresh_sqldb_begin(s) /\ OffCatalog
    \/ refresh_sqldb_resolve(s) /\ OffCatalog
    \/ refresh_sqldb_resolve_raises(s) /\ OffCatalog

vars == <<db, sess, foreign, cand, nops, up, http, norm, res, probe, agent, orch>>

\* the client parts at rest
ClientParked == HttpParked /\ NormParked /\ ResolveParked /\ ProbeParked

\* the scoped refreshes, refresh_sqldb and a concurrent reader
Init == CatalogInit /\ UpsertParked /\ ClientParked /\ AgentParked /\ OrchParked
Next == CatalogNext
Spec == Init /\ [][Next]_vars

SpecTop == Init /\ [][TopNext]_vars

\* upsert applied once and twice to every small store and batch
InitUpsert == CatalogInit /\ UpsertInit /\ ClientParked /\ AgentParked /\ OrchParked
SpecUpsert == InitUpsert /\ [][UpsertNext]_vars

\* one listing call against every small remote listing
InitHttp ==
  CatalogInit /\ UpsertParked /\ HttpInit /\ NormParked /\ ResolveParked /\ ProbeParked
  /\ AgentParked /\ OrchParked
SpecHttp == InitHttp /\ [][HttpNext]_vars

\* the resolver run on every small listing, every sub-call answered in every way
InitResolve ==
  CatalogInit /\ UpsertParked /\ HttpParked /\ NormParked /\ ResolveInit /\ ProbeParked
  /\ AgentParked /\ OrchParked
SpecResolve == InitResolve /\ [][ResolveNext]_vars

\* two probes of one workspace, every call answered in every way
InitProbe ==
  CatalogInit /\ UpsertParked /\ HttpParked /\ NormParked /\ ResolveParked /\ ProbeInit
  /\ AgentParked /\ OrchParked
SpecProbe == InitProbe /\ [][ProbeNext]_vars

\* the normalizer applied to every connection string of ConnStrings
InitNorm ==
  CatalogInit /\ UpsertParked /\ HttpParked /\ NormInit /\ ResolveParked /\ ProbeParked
  /\ AgentParked /\ OrchParked
SpecNorm == InitNorm /\ [][NormNext]_vars

\* _norm applied to every pair of short names
InitNames == CatalogInit /\ UpsertParked /\ ClientParked /\ NamesInit /\ OrchParked
SpecNames == InitNames /\ [][NamesNext]_vars

\* _best_match applied to every short query and candidate list
InitMatch == CatalogInit /\ UpsertParked /\ ClientParked /\ MatchInit /\ OrchParked
SpecMatch == InitMatch /\ [][MatchNext]_vars

\* the two resolvers on every small text, workspace listing and database listing
InitEntity == CatalogInit /\ UpsertParked /\ ClientParked /\ EntityInit /\ OrchParked
SpecEntity == InitEntity /\ [][EntityNext]_vars

\* the three tools on every short identifier and SQL text
InitTools == CatalogInit /\ UpsertParked /\ ClientParked /\ ToolsInit /\ OrchParked
SpecTools == InitTools /\ [][ToolsNext]_vars

\* the three catalog refreshes over every small Workspace and SqlEndpoint table
InitOrch == CatalogInit /\ UpsertParked /\ ClientParked /\ AgentParked /\ OrchInit
SpecOrch == InitOrch /\ [][OrchNext]_vars

\* two sessions refreshing at once under the store's write lock
InitRace == RaceInit /\ UpsertParked /\ ClientParked /\ AgentParked /\ OrchParked
SpecRace == InitRace /\ [][RaceNext]_vars

(***************************************************************************)
(* Properties of the catalog store                                         *)
(***************************************************************************)
ScopedRefresh == {"refresh_schemata", "refresh_tables", "refresh_columns",
                  "refresh_introspect"}
TopRefresh == {"refresh_workspaces", "refresh_workspace", "refresh_workspace_all"}

\* the scope key of a scoped refresh request
RefreshScope(ss) ==
  CASE ss.op = "refresh_tables" ->
         [workspace_id |-> ss.workspace_id, database_id |-> ss.database_id,
          schema_name |-> ss.schema]
    [] ss.op = "refresh_columns" ->
         [workspace_id |-> ss.workspace_id, database_id |-> ss.database_id,
          schema_name |-> ss.schema, table_name |-> ss.table]
    [] OTHER ->
         [workspace_id |-> ss.workspace_id, database_id |-> ss.database_id]

\* row r lies at or below the scope
AtOrBelow(r, scope) == DOMAIN scope \subseteq DOMAIN r /\ InScope(r, scope)

HasKey(rows, t, r) == \E x \in rows : KeyOf(t, x) = KeyOf(t, r)

\* C1: after a successful scoped refresh (and no commit of another session since
\* it began) every Schema, Table and Column row at or below its scope is a row
\* the refresh inserted.
C1_ScopeHoldsOnlyInsertedRows ==
  \A s \in Sessions :
    (sess[s].op \in ScopedRefresh /\ sess[s].pc = "done" /\ ~foreign[s])
    => \A t \in {"Schema", "Table", "Column"} : \A r \in db[t] :
         AtOrBelow(r, RefreshScope(sess[s])) => r \in sess[s].ins[t]

\* C2: a scoped refresh that failed in a live fetch, after its delete, leaves the
\* committed rows of its database exactly as they were when it began.
C2_FailedRefreshKeepsScope ==
  \A s \in Sessions :
    (sess[s].op \in ScopedRefresh /\ sess[s].pc = "failed" /\ sess[s].live
       /\ ~foreign[s])
    => /\ sess[s].commits = 0
       /\ ScopeOf(db, sess[s].workspace_id, sess[s].database_id)
            = ScopeOf(sess[s].pre, sess[s].workspace_id, sess[s].database_id)

\* a refresh_introspect failed in a later fetch, after it had deleted the rows
\* of a filled scope and upserted new Schema rows
C2_Witness ==
  \E s \in Sessions :
    /\ sess[s].op = "refresh_introspect" /\ sess[s].pc = "failed" /\ sess[s].live
    /\ ~foreign[s]
    /\ sess[s].ins["Schema"] # {}
    /\ \A t \in {"Schema", "Table", "Column"} :
         ScopeOf(sess[s].pre, sess[s].workspace_id, sess[s].database_id)[t] # {}

\* C3: a refresh_workspaces call that failed part-way leaves the committed store
\* as it was before the call.
C3_HydrateAllOrNothing ==
  \A s \in Sessions :
    (sess[s].op = "refresh_workspaces" /\ sess[s].pc = "failed" /\ ~foreign[s])
    => db = sess[s].pre

\* C4: what introspect returns for its database is the committed content of that
\* scope at one moment of the read: the content before a concurrent refresh
\* committed, or the content after.
C4_ReaderSeesPreOrPost ==
  \A s \in Sessions :
    (sess[s].op = "introspect" /\ sess[s].pc = "done") => sess[s].seen \in cand[s]

\* C5: in every committed store every Schema row has its SqlEndpoint row, every
\* Table row its Schema row and every Column row its Table row.
C5_ParentsExist ==
  /\ \A r \in db["Schema"] :
       \E e \in db["SqlEndpoint"] : e.database_id = r.database_id
  /\ \A r \in db["Table"] : HasKey(db["Schema"], "Schema", r)
  /\ \A r \in db["Column"] : HasKey(db["Table"], "Table", r)

\* every row of table t the request found in the store is still there, by key
KeepsRows(s, t) == \A r \in sess[s].pre[t] : HasKey(db[t], t, r)

\* C6 as stated: after any top-level refresh, refresh_sqldb included, every
\* Workspace, Item and SqlEndpoint row that was in the store is still in it.
C6_NoTopLevelRowDropped ==
  \A s \in Sessions :
    (sess[s].op \in TopRefresh \cup {"refresh_sqldb"} /\ sess[s].pc = "done"
       /\ ~foreign[s])
    => \A t \in {"Workspace", "Item", "SqlEndpoint"} : KeepsRows(s, t)

\* C6 amended: refresh_workspaces, refresh_workspace and refresh_workspace_all
\* keep every Workspace, Item and SqlEndpoint row; refresh_sqldb keeps every
\* Workspace and Item row and every SqlEndpoint row of another workspace, and of
\* its own workspace exactly the rows the crawl returned.
C6_UpsertKeepsRowsPurgeIsByWorkspace ==
  \A s \in Sessions :
    (sess[s].pc = "done" /\ ~foreign[s])
    => /\ sess[s].op \in TopRefresh
          => \A t \in {"Workspace", "Item", "SqlEndpoint"} : KeepsRows(s, t)
       /\ sess[s].op = "refresh_sqldb"
          => /\ KeepsRows(s, "Workspace") /\ KeepsRows(s, "Item")
             /\ \A r \in sess[s].pre["SqlEndpoint"] :
                  r.workspace_id # sess[s].workspace_id => r \in db["SqlEndpoint"]
             /\ {r \in db["SqlEndpoint"] : r.workspace_id = sess[s].workspace_id}
                  = sess[s].ins["SqlEndpoint"]

\* a refresh_workspace_all whose crawl returned no item and no endpoint finished,
\* and the Item and SqlEndpoint rows of its workspace are still in the store
C6_Witness ==
  \E s \in Sessions :
    /\ sess[s].op = "refresh_workspace_all" /\ sess[s].pc = "done" /\ ~foreign[s]
    /\ sess[s].ins["Item"] = {} /\ sess[s].ins["SqlEndpoint"] = {}
    /\ \E r \in db["Item"] : r.workspace_id = sess[s].workspace_id
    /\ \E r \in db["SqlEndpoint"] : r.workspace_id = sess[s].workspace_id

(***************************************************************************)
(* Properties of upsert                                                    *)
(***************************************************************************)
UFields == {"id", "name", "version"}

\* the rows of batch b for key k that give column f
Giving(b, k, f) == {i \in 1..Len(b) : b[i].id = k /\ f \in DOMAIN b[i]}

MaxOf(S) == CHOOSE x \in S : \A y \in S : y <= x

\* the row of key k after the batch: per column the last value given, else the
\* value the stored row had, else the column default
RowAfter(st, b, k) ==
  [f \in UFields |->
     IF Giving(b, k, f) # {} THEN b[MaxOf(Giving(b, k, f))][f]
     ELSE IF \E x \in st : x.id = k THEN (CHOOSE x \in st : x.id = k)[f]
     ELSE Default("Workspace")[f]]

StoreAfter(st, b) ==
  {RowAfter(st, b, k) : k \in {x.id : x \in st} \cup {b[i].id : i \in 1..Len(b)}}

\* C7: an upserted batch overwrites, in the rows whose keys it names, exactly the
\* columns it gives, inserts the rows whose keys are new, leaves every other
\* row as it was; a second run of the same batch changes nothing.
C7_UpsertOverwritesGivenColumnsOnly ==
  /\ up.pc \in {"once", "twice"} => up.once = StoreAfter(up.store, up.batch)
  /\ up.pc = "twice" => up.twice = up.once

\* a batch updated a stored row without giving its version, which was not the
\* default, inserted a new row, left a third key alone, and ran twice
C7_Witness ==
  /\ up.pc = "twice"
  /\ \E x \in up.store :
       /\ x.version # 0
       /\ \E i \in 1..Len(up.batch) :
            /\ up.batch[i].id = x.id /\ "name" \in DOMAIN up.batch[i]
            /\ up.batch[i].name # x.name
       /\ Giving(up.batch, x.id, "version") = {}
  /\ \E i \in 1..Len(up.batch) : \A x \in up.store : x.id # up.batch[i].id

(***************************************************************************)
(* Properties of the listing and of the retrying GET                       *)
(***************************************************************************)
RECURSIVE Flatten(_)
Flatten(ps) == IF ps = <<>> THEN <<>> ELSE Head(ps) \o Flatten(Tail(ps))

\* the ids of what the listing returned
ResultIds ==
  IF http.fn = "list_workspaces"
  THEN [i \in 1..Len(http.result) |-> http.result[i].id]
  ELSE http.result

\* C8: list_items and list_workspaces ask for the pages in order, the first
\* without a token and each next one with the token of the page before, have
\* accumulated the concatenation of the pages answered so far, stop at the page
\* without a token and return the concatenation of all pages.
C8_ListingConcatenatesPages ==
  http.pc # "off" /\ http.fn \in {"list_items", "list_workspaces"}
  => /\ Len(http.sent) <= Len(http.pages)
     /\ \A i \in 1..Len(http.sent) :
          http.sent[i] = IF i = 1 THEN NoToken ELSE <<i - 1>>
     /\ http.items = Flatten(SubSeq(http.pages, 1, Len(http.sent)))
     /\ http.pc \in {"detail", "returned"} => Len(http.sent) = Len(http.pages)
     /\ http.pc = "returned" => ResultIds = Flatten(http.pages)

\* list_workspaces returned a listing of several pages that hold items
C8_Witness ==
  /\ http.pc = "returned" /\ http.fn = "list_workspaces"
  /\ Len(http.pages) > 1
  /\ \A i \in 1..Len(http.pages) : http.pages[i] # <<>>

\* C9: _get_json_retry makes at most fabric_http_retries attempts; every attempt
\* but the last failed with a transient error; a status error ends the call at
\* once; the exception that leaves the call is the one of the last attempt, and
\* a transient one leaves it only from the last allowed attempt.
C9_RetryPolicy ==
  http.pc # "off" /\ UsesRetry(http.fn)
  => LET n == Len(http.tries) IN
     /\ n <= fabric_http_retries
     /\ \A i \in 1..(n - 1) : http.tries[i] = "transient"
     /\ http.pc = "page" => n < fabric_http_retries
                            /\ \A i \in 1..n : http.tries[i] = "transient"
     /\ http.pc = "raised" =>
          /\ http.exc = [kind |-> http.tries[n], attempt |-> n]
          /\ http.exc.kind = "transient" => n = fabric_http_retries

\* the retrying GET gave up on a later page after its last allowed attempt
C9_Witness ==
  /\ http.pc = "raised" /\ UsesRetry(http.fn)
  /\ http.exc.kind = "transient" /\ http.exc.attempt = fabric_http_retries
  /\ Len(http.sent) > 0

\* C10: list_workspaces and list_items fail with a transient error only when
\* the attempt limit is exhausted on a page request.
C10_ListingRetriesTransient ==
  (/\ http.pc = "raised" /\ http.fn \in {"list_workspaces", "list_items"}
   /\ http.exc.kind = "transient")
  => http.exc.attempt = fabric_http_retries

(***************************************************************************)
(* Properties of the connection normalizer                                 *)
(***************************************************************************)
\* C20: for a key-value connection string whose server value is host,port with
\* a numeric port, the server returned is the host alone, without the port that
\* followed it; the string of the specification's example gives server "h",
\* database "DB", port 1433.
C20_ServerIsHostAlone ==
  (/\ norm.pc = "done" /\ norm.cs \in KeyValue
   /\ Contains(norm.cs, "1433") \/ Contains(norm.cs, "1500"))
  => /\ ~Contains(norm.out.server, ",")
     /\ norm.out.port = IF Contains(norm.cs, "1433") THEN 1433 ELSE 1500
     /\ norm.cs = <<"Data Source", "=", "tcp", ":", "h", ",", "1433", ";",
                    "Initial Catalog", "=", "DB", ";">>
        => norm.out = [server |-> <<"h">>, database |-> <<"DB">>, port |-> 1433]

(***************************************************************************)
(* Properties of the connection resolver                                   *)
(***************************************************************************)
\* the numbers of the listed items whose lower-cased type is one of types, in order
ItemsOfType(types) ==
  LET Listed(k) == LowerAtom(res.items[k].type) \in types
  IN SelectSeq([k \in 1..Len(res.items) |-> k], Listed)

\* the item numbers of the rows returned, in order
RowItems == [j \in 1..Len(res.rows) |-> res.rows[j].database_id[2]]

\* C11 as stated: the rows returned are one for each item of type warehouse,
\* sqlendpoint, lakehouse or the sqldatabase family; no other item has a row.
C11_OneRowPerListedSqlType ==
  res.pc = "returned"
  => RowItems = ItemsOfType({"warehouse", "sqlendpoint", "lakehouse", "sqldatabase",
                             "sql database", "sqldatabasepreview"})

\* C11 amended: the rows returned are, in listing order, one for each item of
\* type warehouse, sqlendpoint, lakehouse, sqlep, lakehousesqlendpoint or the
\* sqldatabase family, with that item's id, however many sub-calls were made
\* for it and whether or not a connection string was found.
C11_OneRowPerSqlCapableItem ==
  res.pc = "returned"
  => /\ RowItems = ItemsOfType({"warehouse", "sqlendpoint", "lakehouse", "sqlep",
                                "lakehousesqlendpoint", "sqldatabase", "sql database",
                                "sqldatabasepreview"})
     /\ \A j \in 1..Len(res.rows) : res.rows[j].database_id = <<"i", RowItems[j]>>

\* the resolver returned for a listing of a notebook and a SQL database written
\* in mixed case, whose four sub-calls found no connection string
C11_Witness ==
  /\ res.pc = "returned" /\ Len(res.items) = 2 /\ Len(res.rows) = 1
  /\ \E k \in 1..2 : res.items[k].type = "Notebook"
  /\ \E k \in 1..2 : res.items[k].type = "SQLDatabase"
  /\ res.tried[1] = 4 /\ ~Truthy(res.rows[1].connection_string)

\* C12: a 401 or 403 answer of a connection sub-call never makes the resolver
\* raise.
C12_DeniedIsNeverFatal == res.pc = "raised" => res.exc \notin {401, 403}

\* C13: a row of a SQL database whose descriptor is empty (no connection string,
\* no server) was written only after all four sub-calls had been made: an empty
\* or null connection string did not stop the search.
C13_EmptyAnswerDoesNotStopSearch ==
  \A j \in 1..Len(res.rows) :
    (/\ res.rows[j].kind = "SqlDatabase"
     /\ ~Truthy(res.rows[j].connection_string) /\ ~Truthy(res.rows[j].server))
    => res.tried[j] = 4

\* C14: the rows the resolver hands to the catalog store hold one row for each
\* (kind, name) pair.
C14_OneRowPerKindAndName ==
  res.pc = "returned"
  => \A j1, j2 \in 1..Len(res.rows) :
       (res.rows[j1].kind = res.rows[j2].kind /\ res.rows[j1].name = res.rows[j2].name)
       => j1 = j2

(***************************************************************************)
(* Properties of the availability prober                                   *)
(***************************************************************************)
\* C15: a probe that has returned has returned active or inactive, whatever
\* the listing, the connection-string call and the trial query answered, and a
\* call that failed made the probe return.
C15_ProbeEndsActiveOrInactive ==
  /\ probe.pc = "returned" => probe.result \in {"active", "inactive"}
  /\ probe.failed.step # NULL => probe.pc = "returned"

\* a probe returned after its trial query had failed with an unclassified error
C15_Witness ==
  /\ probe.pc = "returned"
  /\ probe.failed.step = "exec_traditional" /\ probe.failed.msg = {"boom"}

\* C16: a probe whose listing succeeded with an empty value list returns active.
C16_NoEndpointsIsActive ==
  (probe.pc = "returned" /\ probe.log["list"] = Ok(<<>>)) => probe.result = "active"

\* C17: when the trial query on a Fabric-managed endpoint fails, the probe
\* returns inactive exactly when the message holds an outage keyword.
C17_FabricQueryFailureByOutageKeyword ==
  (probe.pc = "returned" /\ probe.failed.step = "exec_fabric")
  => (probe.result = "inactive" <=> probe.failed.msg \cap OutageKeywords # {})

\* C18: when a remote API call of the probe fails (endpoint listing, connection
\* string, item listing), the probe returns inactive exactly when the error text
\* holds an outage keyword.
C18_ApiFailureByOutageKeyword ==
  (/\ probe.pc = "returned"
   /\ probe.failed.step \in {"list", "conn", "items", "relist", "conn_test"})
  => (probe.result = "inactive" <=> probe.failed.msg \cap OutageKeywords # {})

\* every call the probe made was answered without error, up to a trial query
Healthy ==
  /\ \A st \in ProbeSteps : probe.log[st].kind \in {"ok", "unasked"}
  /\ \E st \in {"exec_fabric", "exec_inner", "exec_traditional"} : probe.log[st].kind = "ok"

C21_NormIgnoresCaseDiacriticsSeparators ==
  agent.pc = "normed" /\ Skeleton(agent.x) = Skeleton(agent.y) => agent.nx = agent.ny

\* the part of C21 that the code does give: letter case alone
C21_NormIgnoresCase ==
  agent.pc = "normed" /\ Lower(agent.x) = Lower(agent.y) => agent.nx = agent.ny

\* C23: _best_match returns null or a candidate; it returns a candidate whose
\* normalized name has the highest similarity ratio to the normalized query
\* when that ratio is at least 0.8, and null when every candidate is below 0.8
\* or the query or the candidate list is empty.
C23_BestMatchIsTopCandidateAboveCutoff ==
  agent.pc = "matched" =>
    LET cs == agent.candidates
        score(c) == Ratio(Norm(c), Norm(agent.name))
        above == {i \in DOMAIN cs : 5 * score(cs[i]).num >= 4 * score(cs[i]).den}
    IN IF ~Truthy(agent.name) \/ cs = <<>> \/ above = {} THEN agent.best = None
       ELSE /\ \E i \in above : agent.best = cs[i]
            /\ \A i \in DOMAIN cs : ~RatioLess(score(agent.best), score(cs[i]))

\* a query matched a candidate that differs from it, at exactly the cutoff,
\* while another candidate was below it
C23_Witness ==
  /\ agent.pc = "matched" /\ agent.best # None
  /\ Norm(agent.best) # Norm(agent.name)
  /\ Ratio(Norm(agent.best), Norm(agent.name)) = [num |-> 4, den |-> 5]
  /\ \E i \in DOMAIN agent.candidates :
       RatioLess(Ratio(Norm(agent.candidates[i]), Norm(agent.name)), [num |-> 4, den |-> 5])

C26_CachedWorkspaceNeedsNoRemoteCall ==
  agent.pc \in {"listed", "resolved", "raised"} /\ agent.fn = "workspace"
  /\ (\E w \in db["Workspace"] : Strip(Or(agent.text, <<>>)) \in {<<w.id>>, <<w.name>>})
  => agent.remote = 0

(***************************************************************************)
(* Properties of the agent's SQL tools                                     *)
(***************************************************************************)
\* a supplied name made of letters, digits and underscore only
Clean(s) == s # None /\ s # <<>> /\ \A i \in DOMAIN s : s[i] \in {"d", "1", "_"}

\* C24: a schema or table name is put into a SQL text only if the name as
\* supplied is made of letters, digits and underscore only, and it is put in
\* unaltered.
C24_OnlyCleanIdentifiersInterpolated ==
  agent.tool \in {"list_tables_tool", "list_columns_tool"} /\ agent.sent # NoSql =>
    /\ Clean(agent.schema) /\ agent.sent.schema = agent.schema
    /\ agent.tool = "list_columns_tool" => Clean(agent.table) /\ agent.sent.table = agent.table

\* a SQL text that is one SELECT or one CTE, without banned word or comment
WellShaped(sql) ==
  LET s == RStrip(Strip(Or(sql, <<>>)))
  IN /\ Len(s) >= 2 /\ Lower(s)[1] \in {"select", "with"}
     /\ \A i \in DOMAIN s : Lower(s)[i] \notin Banned \cup {"--", ";"}

\* C25: a request with an unsafe identifier or a malformed SQL text makes no
\* remote listing, no backend request and no exec_query.
C25_InvalidRequestMakesNoCall ==
  (\/ agent.tool = "list_tables_tool" /\ ~Clean(agent.schema)
   \/ agent.tool = "list_columns_tool" /\ ~(Clean(agent.schema) /\ Clean(agent.table))
   \/ agent.tool = "sql_select_tool" /\ ~WellShaped(agent.sql))
  => agent.net = 0 /\ agent.exec = 0

\* the part of C25 the code gives: what _safe_ident refuses makes no call
C25_RefusedIdentifierMakesNoCall ==
  agent.tool \in {"list_tables_tool", "list_columns_tool"} /\ agent.error = "invalid"
  => agent.net = 0 /\ agent.exec = 0

(***************************************************************************)
(* Properties of the catalog refresh                                       *)
(***************************************************************************)
\* C28: no SQL-database refresh and no introspection refresh is issued for a
\* workspace whose stored state is inactive, and refresh_workspace_catalog
\* returns skipped for it.
C28_InactiveWorkspaceIsSkipped ==
  /\ \A i \in DOMAIN orch.workspaces :
       orch.workspaces[i].state = "inactive" =>
         /\ orch.workspaces[i].id \notin orch.sqldb
         /\ \A p \in orch.introspect : p[1] # orch.workspaces[i].id
  /\ orch.fn = "refresh_workspace_catalog" /\ orch.pc = "done" /\ orch.status # "500"
     /\ StateOf(orch.workspaces, orch.workspace_id) = "inactive"
     => orch.status = "skipped"

\* what the code gives: the states suspended and deleted are skipped
C28_SuspendedWorkspaceIsSkipped ==
  \A i \in DOMAIN orch.workspaces :
    orch.workspaces[i].state \in {"Suspended", "deleted"} =>
      /\ orch.workspaces[i].id \notin orch.sqldb
      /\ \A p \in orch.introspect : p[1] # orch.workspaces[i].id

(***************************************************************************)
(* C30: a refresh, a cache read or a query whose endpoint is absent from   *)
(* the store, belongs to another workspace or has no server is refused     *)
(* with 404 or 503 before anything else happens: nothing is deleted or     *)
(* written, nothing is fetched, and the store is as the request found it.  *)
(***************************************************************************)
EndpointChecked == ScopedRefresh \cup {"introspect", "query_sql"}

\* the endpoint rows of the request's database in the store the request found
FoundEndpoints(s) ==
  {e \in sess[s].pre["SqlEndpoint"] : e.database_id = sess[s].database_id}

\* the status the request of session s is owed, 0 when its endpoint is usable
Refusal(s) ==
  IF \A e \in FoundEndpoints(s) : e.workspace_id # sess[s].workspace_id THEN 404
  ELSE IF \E e \in FoundEndpoints(s) : e.server = NULL THEN 503
  ELSE 0

C30_UnusableEndpointIsRefusedFirst ==
  \A s \in Sessions :
    (sess[s].op \in EndpointChecked /\ Refusal(s) # 0) =>
      /\ sess[s].pc = "failed"
      /\ sess[s].status = Refusal(s)
      /\ sess[s].status \in {404, 503}
      /\ sess[s].tx = EmptyTx /\ sess[s].ins = EmptyDb /\ sess[s].commits = 0
      /\ ~ sess[s].live
      /\ (s = "a" => db = sess[s].pre)

\* a refresh of a database whose endpoint row has no server was refused with 503
C30_Witness ==
  /\ sess["a"].op \in ScopedRefresh /\ sess["a"].pc = "failed" /\ sess["a"].status = 503
  /\ \E e \in sess["a"].pre["SqlEndpoint"] :
       e.database_id = sess["a"].database_id /\ e.server = NULL

(***************************************************************************)
(* Two refreshes of the same kind on two sessions                          *)
(***************************************************************************)
\* what a refresh request rewrites: its kind, workspace and database
RaceScope(ss) == <<ss.op, ss.workspace_id, ss.database_id>>

\* the rows of the request's scope in a store
RaceRows(dbv, ss) ==
  IF ss.op = "refresh_sqldb"
  THEN [t \in {"SqlEndpoint"} |-> {r \in dbv[t] : r.workspace_id = ss.workspace_id}]
  ELSE ScopeOf(dbv, ss.workspace_id, ss.database_id)

\* the rows the request's own scan produced
RaceScan(ss) == [t \in DOMAIN RaceRows(db, ss) |-> ss.ins[t]]

Finished(ss) == ss.op \in RaceOps /\ ss.pc \in {"done", "failed"}

\* the request ended on the store's lock, not on its endpoint or its own scan
LockedOut(ss) == ss.op \in RaceOps /\ ss.pc = "failed" /\ ss.status = 500 /\ ~ ss.live

\* two sessions with requests of one kind
Pairs == {p \in Sessions \X Sessions : p[1] # p[2] /\ sess[p[1]].op = sess[p[2]].op
                                       /\ sess[p[1]].op \in RaceOps}

(***************************************************************************)
(* C27: two refreshes of the same kind on different scopes are independent *)
(* under every interleaving: neither is stopped by the other, and once both *)
(* have finished the store holds for each committed one exactly the rows of *)
(* its own scan, as after running them one after the other.                *)
(***************************************************************************)
C27_DifferentScopesAreIndependent ==
  \A p \in Pairs :
    RaceScope(sess[p[1]]) # RaceScope(sess[p[2]]) =>
      /\ ~ LockedOut(sess[p[1]])
      /\ (Finished(sess[p[1]]) /\ Finished(sess[p[2]]) /\ sess[p[1]].pc = "done") =>
           RaceRows(db, sess[p[1]]) = RaceScan(sess[p[1]])

\* when the lock stopped neither, the store is as after a run one after the other
C27_IndependentWhenNeitherWaitsTooLong ==
  \A p \in Pairs :
    (/\ RaceScope(sess[p[1]]) # RaceScope(sess[p[2]])
     /\ Finished(sess[p[1]]) /\ Finished(sess[p[2]]) /\ sess[p[1]].pc = "done") =>
      RaceRows(db, sess[p[1]]) = RaceScan(sess[p[1]])

(***************************************************************************)
(* C29: two overlapping refreshes of the same scope, the only requests:    *)
(* once both have finished, the scope's rows are the rows of exactly one   *)
(* committed scan, never a mixture, never empty when both scans returned   *)
(* rows.  At every moment a commit of a running refresh would leave in its *)
(* scope exactly the rows of its own scan, and none of its pending rows    *)
(* collides with a row another session committed after the wipe, so        *)
(* neither request ends in a key conflict.                                 *)
(***************************************************************************)
\* a pending row of s whose key is committed and was not deleted by s
Collides(s) ==
  \E t \in Tables : \E p \in sess[s].tx.put[t] : \E r \in db[t] :
    KeyOf(t, r) = KeyOf(t, p) /\ KeyOf(t, r) \notin sess[s].tx.del[t]

====
